---------------------------- MODULE Spec2Model ----------------------------
(***************************************************************************)
(* Fee-schedule parser, product segmenter and effective-fee calculator of  *)
(* the adviser fee analysis scripts (enhanced_fee_analysis.py and its      *)
(* step scripts).                                                          *)
(*                                                                         *)
(* Text is a sequence of one-character strings.  Python floats are exact   *)
(* rationals [k |-> "num", n, d] (d > 0, lowest terms); None, float('inf') *)
(* and NaN are the tagged values None, Inf and NaN.                        *)
(*                                                                         *)
(* Spec processes one row of a fee file: process_csv_file or the step      *)
(* scripts derive its products, then calculate_effective_fee is applied    *)
(* to them.  SpecField applies the functions of a single field (the range  *)
(* extractor and the field normalizers) to one cell.  SpecFile applies     *)
(* process_csv_file to a file of several rows.  SpecWalk runs the loop of  *)
(* calculate_effective_fee over the tiers of a product, tier by tier.      *)
(* SpecPipeline is main of run_fee_analysis.py, one script at a time.      *)
(* SpecClean is clean_and_consolidate_data on a list of processed frames.  *)
(* SpecMisplaced is detect_misplaced_answers of fee_structure_analysis.py. *)
(***************************************************************************)
EXTENDS Integers, Sequences, FiniteSets, TLC

VARIABLES pc, impl, row, has_flat_fee, flat_fee_value, product_count,
          products, effective_fee_1M, effective_fee_5M,
          first_tier_fee_product1, first_tier_fee_product3, portfolio_value,
          effective_fee, cell, fn, result, file, frame, tier_index,
          total_fee, remaining_value, data_exists, exit_codes, ran, returned,
          dataframes, combined_df, df, corrected_df, misplaced_count

vars == <<pc, impl, row, has_flat_fee, flat_fee_value, product_count,
          products, effective_fee_1M, effective_fee_5M,
          first_tier_fee_product1, first_tier_fee_product3, portfolio_value,
          effective_fee, cell, fn, result, file, frame, tier_index,
          total_fee, remaining_value, data_exists, exit_codes, ran, returned,
          dataframes, combined_df, df, corrected_df, misplaced_count>>

\* the variables of the fee scripts, of run_fee_analysis.main, of
\* clean_and_consolidate_data and of detect_misplaced_answers
fee_vars ==
    <<impl, row, has_flat_fee, flat_fee_value, product_count, products,
      effective_fee_1M, effective_fee_5M, first_tier_fee_product1,
      first_tier_fee_product3, portfolio_value, effective_fee, cell, fn,
      result, file, frame, tier_index, total_fee, remaining_value>>

pipeline_vars == <<data_exists, exit_codes, ran, returned>>

clean_vars == <<dataframes, combined_df>>

misplaced_vars == <<df, corrected_df, misplaced_count>>

other_vars == <<pipeline_vars, clean_vars, misplaced_vars>>

-----------------------------------------------------------------------------
(* Values *)

None == [k |-> "none", n |-> 0, d |-> 1]
Inf == [k |-> "inf", n |-> 0, d |-> 1]
NaN == [k |-> "nan", n |-> 0, d |-> 1]

IsNum(v) == v.k = "num"

RECURSIVE GCD(_, _)
GCD(a, b) == IF b = 0 THEN a ELSE GCD(b, a % b)

Abs(i) == IF i < 0 THEN -i ELSE i

Rat(n, d) ==
    LET g == GCD(Abs(n), Abs(d))
        s == IF d < 0 THEN -1 ELSE 1
    IN  [k |-> "num", n |-> s * (n \div g), d |-> s * (d \div g)]

Whole(i) == Rat(i, 1)

\* a + b, a - b, a * b, a / b on finite floats
RAdd(a, b) ==
    LET g == GCD(a.d, b.d)
    IN  Rat(a.n * (b.d \div g) + b.n * (a.d \div g), (a.d \div g) * b.d)

RNeg(a) == [a EXCEPT !.n = -a.n]

RSub(a, b) == RAdd(a, RNeg(b))

RMul(a, b) ==
    LET g1 == GCD(Abs(a.n), b.d)
        g2 == GCD(Abs(b.n), a.d)
        h1 == IF g1 = 0 THEN 1 ELSE g1
        h2 == IF g2 = 0 THEN 1 ELSE g2
    IN  Rat((a.n \div h1) * (b.n \div h2), (a.d \div h2) * (b.d \div h1))

RDiv(a, b) == RMul(a, Rat(b.d, b.n))

RLt(a, b) == RSub(a, b).n < 0

RLe(a, b) == RSub(a, b).n <= 0

RMin(a, b) == IF RLt(b, a) THEN b ELSE a

\* Python's a < b on floats that may be inf or NaN (every comparison with
\* NaN is False)
FloatLt(a, b) ==
    CASE a.k = "nan" \/ b.k = "nan" -> FALSE
      [] a.k = "inf" -> FALSE
      [] b.k = "inf" -> TRUE
      [] OTHER -> RLt(a, b)

-----------------------------------------------------------------------------
(* Text: str.lower, str.strip, str.replace and float() *)

Digits == {"0", "1", "2", "3", "4", "5", "6", "7", "8", "9"}

Whitespace == {" "}

UpperCase == <<"A", "B", "C", "D", "E", "F", "G", "H", "I", "J", "K", "L", "M",
               "N", "O", "P", "Q", "R", "S", "T", "U", "V", "W", "X", "Y", "Z">>

LowerCase == <<"a", "b", "c", "d", "e", "f", "g", "h", "i", "j", "k", "l", "m",
               "n", "o", "p", "q", "r", "s", "t", "u", "v", "w", "x", "y", "z">>

LowerChar(c) ==
    IF \E i \in DOMAIN UpperCase : UpperCase[i] = c
    THEN LowerCase[CHOOSE i \in DOMAIN UpperCase : UpperCase[i] = c]
    ELSE c

\* str.lower()
Lower(t) == [i \in DOMAIN t |-> LowerChar(t[i])]

\* str.strip()
Strip(t) ==
    LET keep == {i \in DOMAIN t : t[i] \notin Whitespace}
    IN  IF keep = {} THEN <<>>
        ELSE LET lo == CHOOSE i \in keep : \A j \in keep : i <= j
                 hi == CHOOSE i \in keep : \A j \in keep : j <= i
             IN  SubSeq(t, lo, hi)

\* str.replace(',', '')
RemoveCommas(t) == SelectSeq(t, LAMBDA c : c # ",")

DigitVal(c) ==
    CASE c = "0" -> 0 [] c = "1" -> 1 [] c = "2" -> 2 [] c = "3" -> 3
      [] c = "4" -> 4 [] c = "5" -> 5 [] c = "6" -> 6 [] c = "7" -> 7
      [] c = "8" -> 8 [] c = "9" -> 9

RECURSIVE DigitsVal(_)
DigitsVal(t) ==
    IF t = <<>> THEN 0
    ELSE 10 * DigitsVal(SubSeq(t, 1, Len(t) - 1)) + DigitVal(t[Len(t)])

RECURSIVE Pow10(_)
Pow10(k) == IF k = 0 THEN 1 ELSE 10 * Pow10(k - 1)

\* float(t) for t of the shape digits[.digits], the only shape the
\* patterns below hand to it
Float(t) ==
    LET dots == {i \in DOMAIN t : t[i] = "."}
    IN  IF dots = {} THEN Whole(DigitsVal(t))
        ELSE LET p == CHOOSE i \in dots : TRUE
                 frac == SubSeq(t, p + 1, Len(t))
             IN  Rat(DigitsVal(SubSeq(t, 1, p - 1)) * Pow10(Len(frac))
                       + DigitsVal(frac), Pow10(Len(frac)))

-----------------------------------------------------------------------------
(* Regular expressions.  A position is an index into the text; a match of  *)
(* a sub-pattern from position s is given by its end (the index after its  *)
(* last character).  re.search takes the leftmost start that matches.      *)

At(t, i) == IF i \in DOMAIN t THEN t[i] ELSE "<end>"

\* the end of the longest run of characters of C from s
RECURSIVE RunEnd(_, _, _)
RunEnd(t, s, C) == IF At(t, s) \in C THEN RunEnd(t, s + 1, C) ELSE s

\* the ends of X? and X* after the ends E
Opt(t, E, c) == E \cup {e + 1 : e \in {x \in E : At(t, x) = c}}

Star(t, E, C) == UNION {e .. RunEnd(t, e, C) : e \in E}

\* \d+,?\d*\.?\d*  from s: every end some backtracking path can stop at
NumberEnds(t, s) ==
    LET a == (s + 1) .. RunEnd(t, s, Digits)
        b == Opt(t, a, ",")
        c == Star(t, b, Digits)
        e == Opt(t, c, ".")
    IN  Star(t, e, Digits)

\* \d+\.?\d*  from s
DecimalEnds(t, s) ==
    LET a == (s + 1) .. RunEnd(t, s, Digits)
        b == Opt(t, a, ".")
    IN  Star(t, b, Digits)

Max(S) == CHOOSE x \in S : \A y \in S : y <= x

Min(S) == CHOOSE x \in S : \A y \in S : x <= y

NoMatch == <<>>

\* r'(\d+\.?\d*)%' : group 1, or NoMatch
pct_match(t) ==
    LET ok(s) == {e \in DecimalEnds(t, s) : At(t, e) = "%"}
        starts == {s \in DOMAIN t : ok(s) # {}}
    IN  IF starts = {} THEN NoMatch
        ELSE LET s == Min(starts) IN <<SubSeq(t, s, Max(ok(s)) - 1)>>

\* r'\$(\d+,?\d*\.?\d*)' : group 1, or NoMatch (all quantifiers greedy and
\* nothing follows, so the longest end is taken)
dollar_match(t) ==
    LET starts == {s \in DOMAIN t : t[s] = "$" /\ NumberEnds(t, s + 1) # {}}
    IN  IF starts = {} THEN NoMatch
        ELSE LET s == Min(starts)
             IN  <<SubSeq(t, s + 1, Max(NumberEnds(t, s + 1)) - 1)>>

\* r'\$(\d+,?\d*\.?\d*)\+' : group 1, or NoMatch
plus_match(t) ==
    LET ok(s) == {e \in NumberEnds(t, s + 1) : At(t, e) = "+"}
        starts == {s \in DOMAIN t : t[s] = "$" /\ ok(s) # {}}
    IN  IF starts = {} THEN NoMatch
        ELSE LET s == Min(starts) IN <<SubSeq(t, s + 1, Max(ok(s)) - 1)>>

\* r'\$(\d+,?\d*\.?\d*)\s*-\s*\$(\d+,?\d*\.?\d*)' : groups 1 and 2, or NoMatch
range_match(t) ==
    LET \* ends of the first number after which \s*-\s*\$ and a number match
        second(e) == LET m == RunEnd(t, e, Whitespace)
                         q == RunEnd(t, m + 1, Whitespace)
                     IN  IF At(t, m) = "-" /\ At(t, q) = "$"
                            /\ NumberEnds(t, q + 1) # {}
                         THEN q + 1 ELSE 0
        ok(s) == {e \in NumberEnds(t, s + 1) : second(e) # 0}
        starts == {s \in DOMAIN t : t[s] = "$" /\ ok(s) # {}}
    IN  IF starts = {} THEN NoMatch
        ELSE LET s == Min(starts)
                 e == Max(ok(s))
                 q == second(e)
             IN  <<SubSeq(t, s + 1, e - 1),
                   SubSeq(t, q, Max(NumberEnds(t, q)) - 1)>>

\* r'(\d+\.?\d*)' : group 1, or NoMatch
num_match(t) ==
    LET starts == {s \in DOMAIN t : DecimalEnds(t, s) # {}}
    IN  IF starts = {} THEN NoMatch
        ELSE LET s == Min(starts)
             IN  <<SubSeq(t, s, Max(DecimalEnds(t, s)) - 1)>>

\* r'(\d+,?\d*\.?\d*)' : group 1, or NoMatch
num_comma_match(t) ==
    LET starts == {s \in DOMAIN t : NumberEnds(t, s) # {}}
    IN  IF starts = {} THEN NoMatch
        ELSE LET s == Min(starts)
             IN  <<SubSeq(t, s, Max(NumberEnds(t, s)) - 1)>>

-----------------------------------------------------------------------------
(* Cells of the data frame.  pandas.read_csv gives a missing value (NaN)   *)
(* for a blank or N/A field, a float for a field of a numeric column and a *)
(* str otherwise.                                                          *)

NaNCell == [kind |-> "nan", s |-> <<>>]

Text(t) == [kind |-> "str", s |-> t]

\* a numeric cell; s is what str() gives for it
FloatCell(t) == [kind |-> "float", s |-> t]

\* pd.isna(x)
isna(x) == x.kind = "nan"

\* str(x)
str(x) == x.s

\* x == 'literal' for a cell x of any type
StrEq(x, t) == x.kind = "str" /\ x.s = t

Absent == [raised |-> FALSE, flag |-> 0, value |-> None]

Present(v) == [raised |-> FALSE, flag |-> 1, value |-> v]

\* AttributeError: 'float' object has no attribute 'lower'
AttributeError == [raised |-> TRUE, flag |-> 0, value |-> None]

-----------------------------------------------------------------------------
(* Field normalizers *)

\* process_flat_fee with the last line of process_minimum_investment:
\* return 0, None
process_flat_fee_body_absent(fee_str) ==
    LET pct == pct_match(fee_str)
        dollar == dollar_match(fee_str)
        num == num_match(fee_str)
    IN  CASE pct # NoMatch -> Present(Float(pct[1]))
          [] pct = NoMatch /\ dollar # NoMatch ->
                Present(Float(RemoveCommas(dollar[1])))
          [] pct = NoMatch /\ dollar = NoMatch
               /\ Lower(fee_str) \in {<<"y", "e", "s">>, <<"y">>,
                                      <<"t", "r", "u", "e">>} -> Present(None)
          [] OTHER -> IF num # NoMatch THEN Present(Float(num[1]))
                      ELSE Absent

process_flat_fee_body(fee_str) ==
    LET pct == pct_match(fee_str)
        dollar == dollar_match(fee_str)
        num == num_match(fee_str)
    IN  CASE pct # NoMatch -> Present(Float(pct[1]))
          [] pct = NoMatch /\ dollar # NoMatch ->
                Present(Float(RemoveCommas(dollar[1])))
          [] pct = NoMatch /\ dollar = NoMatch
               /\ Lower(fee_str) \in {<<"y", "e", "s">>, <<"y">>,
                                      <<"t", "r", "u", "e">>} -> Present(None)
          [] OTHER -> IF num # NoMatch THEN Present(Float(num[1]))
                      ELSE Present(None)

process_flat_fee(x) ==
    IF isna(x) THEN Absent
    ELSE IF x.kind # "str" THEN AttributeError
    ELSE IF Lower(x.s) = <<"n", "o">> \/ Strip(x.s) = <<>> THEN Absent
    ELSE process_flat_fee_body(x.s)

\* process_minimum_investment with the last line of process_flat_fee:
\* return 1, None
process_minimum_investment_body_present(min_inv_str) ==
    LET dollar == dollar_match(min_inv_str)
        num == num_comma_match(min_inv_str)
    IN  CASE dollar # NoMatch -> Present(Float(RemoveCommas(dollar[1])))
          [] dollar = NoMatch /\ num # NoMatch ->
                Present(Float(RemoveCommas(num[1])))
          [] OTHER -> Present(None)

\* the part the two copies of process_minimum_investment share
process_minimum_investment_body(min_inv_str) ==
    LET dollar == dollar_match(min_inv_str)
        num == num_comma_match(min_inv_str)
    IN  CASE dollar # NoMatch -> Present(Float(RemoveCommas(dollar[1])))
          [] dollar = NoMatch /\ num # NoMatch ->
                Present(Float(RemoveCommas(num[1])))
          [] OTHER -> IF Lower(min_inv_str) \in {<<"y", "e", "s">>, <<"y">>,
                                                 <<"t", "r", "u", "e">>}
                      THEN Present(None) ELSE Absent

process_minimum_investment(x) ==
    IF isna(x) THEN Absent
    ELSE IF x.kind # "str" THEN AttributeError
    ELSE IF Lower(x.s) \in {<<"n", "o">>, <<"n", "/", "a">>}
            \/ Strip(x.s) = <<>> THEN Absent
    ELSE process_minimum_investment_body(x.s)

Step4Sentinels == {<<"n", "o">>, <<"n", "/", "a">>, <<"n", "a">>,
                   <<"-", "1">>, <<>>}

process_minimum_investment_step4(x) ==
    IF isna(x) \/ Lower(str(x)) \in Step4Sentinels \/ StrEq(x, <<>>) THEN Absent
    ELSE process_minimum_investment_body(str(x))

process_negotiable_threshold_body(neg_thresh_str) ==
    LET dollar == dollar_match(neg_thresh_str)
        num == num_comma_match(neg_thresh_str)
    IN  CASE dollar # NoMatch -> Present(Float(RemoveCommas(dollar[1])))
          [] dollar = NoMatch /\ num # NoMatch ->
                Present(Float(RemoveCommas(num[1])))
          [] OTHER -> Absent

process_negotiable_threshold(x) ==
    IF isna(x) THEN Absent
    ELSE IF x.kind # "str" THEN AttributeError
    ELSE IF Lower(x.s) \in {<<"n", "o">>, <<"n", "/", "a">>}
            \/ Strip(x.s) = <<>> THEN Absent
    ELSE process_negotiable_threshold_body(x.s)

process_negotiable_threshold_step4(x) ==
    IF isna(x) \/ Lower(str(x)) \in Step4Sentinels \/ StrEq(x, <<>>) THEN Absent
    ELSE process_negotiable_threshold_body(str(x))

-----------------------------------------------------------------------------
(* Range extractor *)

NoRange == [raised |-> FALSE, lower |-> None, upper |-> None, fee |-> None]

RangeError == [raised |-> TRUE, lower |-> None, upper |-> None, fee |-> None]

\* the bounds: "$A - $B", else "$A+", else any "$A", else nothing
extract_bounds(fee_range_str) ==
    LET rng == range_match(fee_range_str)
        plus == plus_match(fee_range_str)
        dollar == dollar_match(fee_range_str)
    IN  CASE rng # NoMatch ->
                <<Float(RemoveCommas(rng[1])), Float(RemoveCommas(rng[2]))>>
          [] rng = NoMatch /\ plus # NoMatch ->
                <<Float(RemoveCommas(plus[1])), Inf>>
          [] rng = NoMatch /\ plus = NoMatch /\ dollar # NoMatch ->
                <<Float(RemoveCommas(dollar[1])), None>>
          [] OTHER -> <<None, None>>

extract_percentage(fee_range_str) ==
    LET pct == pct_match(fee_range_str)
    IN  IF pct # NoMatch THEN Float(pct[1]) ELSE None

\* a text without a range taken for the range from 0 at 0%
extract_fee_range_body_open(fee_range_str) ==
    LET b == extract_bounds(fee_range_str)
    IN  [raised |-> FALSE,
         lower |-> IF b[1] = None THEN Whole(0) ELSE b[1],
         upper |-> IF b[2] = None THEN Inf ELSE b[2],
         fee |-> IF extract_percentage(fee_range_str) = None THEN Whole(0)
                 ELSE extract_percentage(fee_range_str)]

extract_fee_range_body(fee_range_str) ==
    LET b == extract_bounds(fee_range_str)
    IN  [raised |-> FALSE, lower |-> b[1], upper |-> b[2],
         fee |-> extract_percentage(fee_range_str)]

\* enhanced_fee_analysis.py
extract_fee_range(x) ==
    IF isna(x) THEN NoRange
    ELSE IF x.kind # "str" THEN RangeError
    ELSE IF Lower(x.s) = <<"n", "/", "a">> \/ Strip(x.s) = <<>> THEN NoRange
    ELSE extract_fee_range_body(x.s)

\* enhanced_fee_analysis_step3.py
extract_fee_range_step3(x) ==
    IF isna(x) \/ StrEq(x, <<>>)
       \/ Lower(str(x)) \in {<<"n", "/", "a">>, <<"n", "a">>, <<"-", "1">>}
    THEN NoRange
    ELSE extract_fee_range_body(str(x))

-----------------------------------------------------------------------------
(* Threshold cells *)

Chars(n) ==
    CASE n = 0 -> <<"0">>
      [] n = 500000 -> <<"5", "0", "0", "0", "0", "0">>
      [] n = 1000000 -> <<"1", "0", "0", "0", "0", "0", "0">>
      [] n = 5000000 -> <<"5", "0", "0", "0", "0", "0", "0">>

\* "$A - $B (C%)" and "$A+ (C%)", the amounts as the characters a and b
BoundedText(a, b, c) ==
    <<"$">> \o a \o <<" ", "-", " ", "$">> \o b \o <<" ", "(">> \o c \o <<"%", ")">>

OpenText(a, c) == <<"$">> \o a \o <<"+", " ", "(">> \o c \o <<"%", ")">>

\* "$A (C%)": one dollar amount and a percent
SingleText(a, c) == <<"$">> \o a \o <<" ", "(">> \o c \o <<"%", ")">>

\* threshold cells that describe a range, and the missing cell
TierCells ==
    { Text(BoundedText(Chars(0), Chars(500000), <<"1", ".", "2">>)),
      Text(OpenText(Chars(500000), <<"1", ".", "0">>)),
      Text(BoundedText(Chars(0), Chars(1000000), <<"0", ".", "8">>)),
      Text(BoundedText(Chars(0), Chars(1000000), <<"1", ".", "0">>)),
      Text(BoundedText(Chars(1000000), Chars(5000000), <<"0", ".", "7", "5">>)),
      Text(OpenText(Chars(5000000), <<"0", ".", "5">>)),
      NaNCell }

\* threshold cells that describe no range: missing, "N/A", "-1", blank, and
\* the -1 of a column that read_csv parsed as numbers
SentinelCells ==
    { NaNCell,
      Text(<<"N", "/", "A">>),
      Text(<<"-", "1">>),
      Text(<<" ">>),
      FloatCell(<<"-", "1", ".", "0">>) }

\* threshold cells with text that is no range, or a range written with
\* thousands separators
OddCells ==
    { NaNCell,
      Text(<<"a", "b", "c">>),
      Text(<<"$", "5", "0", "0", ",", "0", "0", "0", " ", "-", " ", "$", "1",
             ",", "0", "0", "0", ",", "0", "0", "0", " ", "(", "1", ".", "0",
             "%", ")">>) }

\* threshold cells with a single dollar amount, beside a bounded and an
\* open range
SingleCells ==
    { NaNCell,
      Text(BoundedText(Chars(0), Chars(500000), <<"1", ".", "2">>)),
      Text(SingleText(Chars(500000), <<"1", ".", "0">>)),
      Text(OpenText(Chars(500000), <<"1", ".", "0">>)) }

RangeCells == TierCells \cup SentinelCells \cup OddCells \cup SingleCells

\* the extractions of the threshold cells, each cell extracted once
fee_range_of == [x \in RangeCells |-> extract_fee_range(x)]

fee_range_of_step3 == [x \in RangeCells |-> extract_fee_range_step3(x)]

-----------------------------------------------------------------------------
(* list.sort(key = ...): CPython's sort of a short list (fewer than 64     *)
(* elements: one natural run, then binary insertion), on pairs of a key   *)
(* and its item; keys are compared with Python's < on floats.              *)

Reverse(a) == [i \in DOMAIN a |-> a[Len(a) + 1 - i]]

\* count_run: the length of the run a[1..n] starts with, and whether it is
\* a strictly descending one
count_run(a) ==
    IF Len(a) < 2 THEN [n |-> Len(a), descending |-> FALSE]
    ELSE LET desc == FloatLt(a[2].key, a[1].key)
             step(j) == IF desc THEN FloatLt(a[j].key, a[j - 1].key)
                        ELSE ~FloatLt(a[j].key, a[j - 1].key)
         IN  [n |-> Max({m \in 2 .. Len(a) : \A j \in 3 .. m : step(j)}),
              descending |-> desc]

\* the binary search of binarysort: where pivot goes in the sorted a[1..r-1]
RECURSIVE bisect(_, _, _, _)
bisect(a, pivot, l, r) ==
    IF l >= r THEN l
    ELSE LET p == l + ((r - l) \div 2)
         IN  IF FloatLt(pivot.key, a[p].key) THEN bisect(a, pivot, l, p)
             ELSE bisect(a, pivot, p + 1, r)

\* a with a[start] moved to position l
insert_at(a, start, l) ==
    SubSeq(a, 1, l - 1) \o <<a[start]>> \o SubSeq(a, l, start - 1)
      \o SubSeq(a, start + 1, Len(a))

RECURSIVE binarysort(_, _)
binarysort(a, start) ==
    IF start > Len(a) THEN a
    ELSE binarysort(insert_at(a, start, bisect(a, a[start], 1, start)), start + 1)

\* the first run made ascending, the rest inserted into it one by one
sort_from_run(a, run) ==
    binarysort((IF run.descending THEN Reverse(SubSeq(a, 1, run.n))
                ELSE SubSeq(a, 1, run.n)) \o SubSeq(a, run.n + 1, Len(a)),
               run.n + 1)

sort_keyed(a) == sort_from_run(a, count_run(a))

Items(sorted) == [i \in DOMAIN sorted |-> sorted[i].item]

\* list.sort on the pairs: the keys are computed once, the items follow them
list_sort(keyed) == Items(sort_keyed(keyed))

-----------------------------------------------------------------------------
(* Product segmenter *)

\* the threshold columns of a row: range(1, 9)
NumRanges == 8

\* the stitching tolerance, 0.01
Tolerance == Rat(1, 100)

FlatProduct(fee_value) ==
    [type |-> "flat", fee |-> fee_value, tiers |-> <<>>, original_index |-> -1,
     first_tier_fee |-> None]

TieredProduct(tiers, index) ==
    [type |-> "tiered", fee |-> None, tiers |-> tiers, original_index |-> index,
     first_tier_fee |-> None]

\* Tier with an absent upper bound kept as None
Tier_upper_kept(lower, upper, fee) ==
    [lower |-> lower, upper |-> upper, fee |-> fee]

Tier(lower, upper, fee) ==
    [lower |-> lower, upper |-> IF upper # None THEN upper ELSE Inf, fee |-> fee]

\* continues with the tolerance test the wrong way round:
\* abs(upper - lower) > 0.01
continues_outside_tolerance(upper, lower) ==
    IF upper = Inf THEN TRUE
    ELSE LET diff == RSub(upper, lower)
         IN  RLt(Tolerance, IF diff.n < 0 THEN RNeg(diff) ELSE diff)

\* abs(upper - lower) < 0.01 or upper == float('inf')
continues(upper, lower) ==
    IF upper = Inf THEN TRUE
    ELSE LET diff == RSub(upper, lower)
         IN  RLt(IF diff.n < 0 THEN RNeg(diff) ELSE diff, Tolerance)

\* product['first_tier_fee'] of the loop that follows the stitching
with_first_tier_fee(product) ==
    [product EXCEPT !.first_tier_fee =
        IF product.type = "tiered" /\ Len(product.tiers) > 0
        THEN product.tiers[1].fee
        ELSE IF product.type = "flat" THEN product.fee ELSE Inf]

\* the sort key: first_tier_fee, float('inf') when it is None
sort_key(product) ==
    IF product.first_tier_fee # None THEN product.first_tier_fee ELSE Inf

\* products.sort(key = lambda x: x['first_tier_fee'] ...) after the loop
\* that sets first_tier_fee
order_products(prods) ==
    list_sort([i \in DOMAIN prods |->
                  [key |-> sort_key(with_first_tier_fee(prods[i])),
                   item |-> with_first_tier_fee(prods[i])]])

\* attach with the range put in place of the last tier it continues
attach_in_place(prods, lower, upper, fee) ==
    LET fits == {j \in DOMAIN prods :
                    /\ prods[j].type = "tiered"
                    /\ continues(prods[j].tiers[Len(prods[j].tiers)].upper,
                                 lower)}
    IN  IF fits # {}
        THEN LET j == Min(fits)
             IN  [prods EXCEPT ![j].tiers[Len(prods[j].tiers)] =
                                   Tier(lower, upper, fee)]
        ELSE Append(prods,
                    TieredProduct(<<Tier(lower, upper, fee)>>, Len(prods)))

\* enhanced_fee_analysis.py: the range joins the first tiered product, in
\* list order, whose last tier it continues; else it starts a new product
attach(prods, lower, upper, fee) ==
    LET fits == {j \in DOMAIN prods :
                    /\ prods[j].type = "tiered"
                    /\ continues(prods[j].tiers[Len(prods[j].tiers)].upper,
                                 lower)}
    IN  IF fits # {}
        THEN LET j == Min(fits)
             IN  [prods EXCEPT ![j].tiers = Append(@, Tier(lower, upper, fee))]
        ELSE Append(prods,
                    TieredProduct(<<Tier(lower, upper, fee)>>, Len(prods)))

ProductsError == [raised |-> TRUE, count |-> 0, products |-> <<>>]

Returned(prods) ==
    [raised |-> FALSE, count |-> Len(prods), products |-> prods]

\* what the loop body does with the range r of a column
stitch_range(prods, r) ==
    IF r.fee # None /\ r.lower # None
    THEN attach(prods, r.lower, r.upper, r.fee) ELSE prods

\* the extractions of the columns the loop does not skip, in column order
RECURSIVE extracted_columns(_, _)
extracted_columns(ranges, i) ==
    IF i > NumRanges THEN <<>>
    ELSE IF isna(ranges[i]) \/ StrEq(ranges[i], <<"N", "/", "A">>)
         THEN extracted_columns(ranges, i + 1)
    ELSE <<fee_range_of[ranges[i]]>> \o extracted_columns(ranges, i + 1)

\* the loop over annual_fee_range_1 .. annual_fee_range_8; an extraction
\* that raises ends it
RECURSIVE stitch_columns(_, _, _)
stitch_columns(prods, rs, i) ==
    IF i > Len(rs) THEN Returned(order_products(prods))
    ELSE IF rs[i].raised THEN ProductsError
    ELSE stitch_columns(stitch_range(prods, rs[i]), rs, i + 1)

identify_products(flag, fee_value, ranges) ==
    stitch_columns(IF flag = 1 THEN <<FlatProduct(fee_value)>> ELSE <<>>,
                   extracted_columns(ranges, 1), 1)

\* enhanced_fee_analysis_step3.py: collect the ranges, sort them by lower
\* bound, then cut the sorted list into prods
collect_range(r, i) ==
    IF r.lower # None /\ r.fee # None
    THEN <<[lower |-> r.lower, upper |-> IF r.upper # None THEN r.upper ELSE Inf,
            fee |-> r.fee, original_index |-> i - 1]>>
    ELSE <<>>

RECURSIVE collect_ranges(_, _)
collect_ranges(ranges, i) ==
    IF i > NumRanges THEN <<>>
    ELSE IF isna(ranges[i]) THEN collect_ranges(ranges, i + 1)
    ELSE collect_range(fee_range_of_step3[ranges[i]], i)
           \o collect_ranges(ranges, i + 1)

lower_key(fee_range) == fee_range.lower

\* fee_ranges.sort(key = lambda x: x['lower'])
sort_fee_ranges(fee_ranges) ==
    list_sort([i \in DOMAIN fee_ranges |->
                  [key |-> lower_key(fee_ranges[i]), item |-> fee_ranges[i]]])

\* the loop over fee_ranges[1:]: the current product is the last one
RECURSIVE group_ranges(_, _, _, _)
group_ranges(prods, last_upper, fee_ranges, i) ==
    IF i > Len(fee_ranges) THEN prods
    ELSE LET fee_range == fee_ranges[i]
             n == Len(prods)
         IN  IF continues(last_upper, fee_range.lower)
             THEN group_ranges([prods EXCEPT ![n].tiers = Append(@, fee_range)],
                               fee_range.upper, fee_ranges, i + 1)
             ELSE group_ranges(Append(prods, TieredProduct(<<fee_range>>, n)),
                               fee_range.upper, fee_ranges, i + 1)

\* the products of the sorted fee_ranges, after the flat product if any
group_sorted(flat, fee_ranges) ==
    IF fee_ranges = <<>> THEN flat
    ELSE group_ranges(Append(flat, TieredProduct(<<fee_ranges[1]>>, 0)),
                      fee_ranges[1].upper, fee_ranges, 2)

identify_products_step3(flag, fee_value, ranges) ==
    Returned(order_products(
        group_sorted(IF flag = 1 /\ fee_value \notin {None, NaN}
                     THEN <<FlatProduct(fee_value)>> ELSE <<>>,
                     sort_fee_ranges(collect_ranges(ranges, 1)))))

-----------------------------------------------------------------------------
(* Effective fee calculator *)

\* walk_tiers with a tier's width taken to be its upper bound:
\* min(upper, remaining_value)
RECURSIVE walk_tiers_from_zero(_, _, _, _)
walk_tiers_from_zero(tiers, i, total, remaining) ==
    IF i > Len(tiers) \/ RLe(remaining, Whole(0)) THEN total
    ELSE IF tiers[i].upper = Inf
    THEN walk_tiers_from_zero(tiers, i + 1,
             RAdd(total,
                  RMul(remaining, RDiv(tiers[i].fee, Whole(100)))),
             Whole(0))
    ELSE walk_tiers_from_zero(tiers, i + 1,
             RAdd(total,
                  RMul(RMin(tiers[i].upper, remaining),
                       RDiv(tiers[i].fee, Whole(100)))),
             RSub(remaining, RMin(tiers[i].upper, remaining)))

\* the loop over product['tiers'], from tier i on
RECURSIVE walk_tiers(_, _, _, _)
walk_tiers(tiers, i, total, remaining) ==
    IF i > Len(tiers) \/ RLe(remaining, Whole(0)) THEN total
    ELSE LET tier == tiers[i]
             rate == RDiv(tier.fee, Whole(100))
         IN  IF tier.upper = Inf
             THEN walk_tiers(tiers, i + 1,
                             RAdd(total, RMul(remaining, rate)), Whole(0))
             ELSE LET tier_value == RMin(RSub(tier.upper, tier.lower),
                                         remaining)
                  IN  walk_tiers(tiers, i + 1,
                                 RAdd(total, RMul(tier_value, rate)),
                                 RSub(remaining, tier_value))

\* calculate_effective_fee trying the flat products before the tiered ones
calculate_effective_fee_flat_first(prods, value) ==
    LET tiered_products == SelectSeq(prods, LAMBDA p : p.type = "tiered")
        flat_products == SelectSeq(prods, LAMBDA p : p.type = "flat")
    IN  IF prods = <<>> THEN None
        ELSE IF flat_products # <<>> /\ flat_products[1].fee # None
        THEN flat_products[1].fee
        ELSE IF tiered_products # <<>>
        THEN RMul(RDiv(walk_tiers(tiered_products[1].tiers, 1, Whole(0), value),
                       value), Whole(100))
        ELSE None

\* calculate_effective_fee with 0 for the empty list: return 0
calculate_effective_fee_zero(prods, value) ==
    LET tiered_products == SelectSeq(prods, LAMBDA p : p.type = "tiered")
        flat_products == SelectSeq(prods, LAMBDA p : p.type = "flat")
    IN  IF prods = <<>> THEN Whole(0)
        ELSE IF tiered_products # <<>>
        THEN RMul(RDiv(walk_tiers(tiered_products[1].tiers, 1, Whole(0), value),
                       value), Whole(100))
        ELSE IF flat_products # <<>> /\ flat_products[1].fee # None
        THEN flat_products[1].fee
        ELSE None

calculate_effective_fee(prods, value) ==
    LET tiered_products == SelectSeq(prods, LAMBDA p : p.type = "tiered")
        flat_products == SelectSeq(prods, LAMBDA p : p.type = "flat")
    IN  IF prods = <<>> THEN None
        ELSE IF tiered_products # <<>>
        THEN RMul(RDiv(walk_tiers(tiered_products[1].tiers, 1, Whole(0), value),
                       value), Whole(100))
        ELSE IF flat_products # <<>> /\ flat_products[1].fee # None
        THEN flat_products[1].fee
        ELSE None

-----------------------------------------------------------------------------
(* Inputs *)

\* run_fee_analysis.main, clean_and_consolidate_data and
\* detect_misplaced_answers are not running
OthersUnused ==
    /\ data_exists = FALSE
    /\ exit_codes = <<>>
    /\ ran = <<>>
    /\ returned = "none"
    /\ dataframes = <<>>
    /\ combined_df = None
    /\ df = <<>>
    /\ corrected_df = <<>>
    /\ misplaced_count = 0

\* threshold columns of a row that hold a value; the others are missing
MaxCells == 3

FlatCells ==
    { NaNCell, Text(<<"N", "o">>), Text(<<"Y", "e", "s">>),
      Text(<<"1", ".", "5", "%">>), Text(<<"0", ".", "5", "%">>),
      Text(<<"a", "b", "c">>) }

\* the row with the flat fee cell f and the threshold cells r, the columns
\* after them missing
Row(f, r) ==
    [flat |-> f,
     ranges |-> [i \in 1 .. NumRanges |-> IF i <= MaxCells THEN r[i] ELSE NaNCell]]

Rows ==
    { Row(f, r) : f \in FlatCells,
                  r \in [1 .. MaxCells -> TierCells]
                          \cup [1 .. MaxCells -> SentinelCells]
                          \cup [1 .. MaxCells -> OddCells]
                          \cup [1 .. MaxCells -> SingleCells] }

\* dollar amounts as they are written, with what they denote
Amounts ==
    { [text |-> <<"0">>, value |-> 0],
      [text |-> <<"5", "0", "0">>, value |-> 500],
      [text |-> <<"1", ",", "0", "0", "0">>, value |-> 1000],
      [text |-> <<"5", "0", "0", ",", "0", "0", "0">>, value |-> 500000],
      [text |-> <<"1", ",", "0", "0", "0", ",", "0", "0", "0">>, value |-> 1000000],
      [text |-> <<"5", ",", "0", "0", "0", ",", "0", "0", "0">>, value |-> 5000000] }

\* percents as they are written, with what they denote
Percents ==
    { [text |-> <<"1", ".", "0">>, value |-> Rat(1, 1)],
      [text |-> <<"0", ".", "7", "5">>, value |-> Rat(3, 4)],
      [text |-> <<"0", ".", "5">>, value |-> Rat(1, 2)] }

\* the texts the spec calls sentinels, in several letter cases
SentinelTexts ==
    { <<>>,
      <<" ">>,
      <<"N", "o">>,
      <<"N", "O">>,
      <<"n", "o">>,
      <<"N", "/", "A">>,
      <<"n", "/", "a">>,
      <<"N", "/", "a">>,
      <<"-", "1">> }

\* texts of the flat fee, minimum investment and negotiable threshold columns
FieldTexts ==
    { <<"$", "a", "b", "c">>,
      <<"a", "b", "c", "%">>,
      <<"a", "b", "c">>,
      <<"$", "a", "b", "c", " ", "5">>,
      <<"Y", "e", "s">>,
      <<"y">>,
      <<"T", "R", "U", "E">>,
      <<"1", ".", "5", "%">>,
      <<"$", "2", "5", ",", "0", "0", "0">>,
      <<"$", "1", ",", "0", "0", "0", ",", "0", "0", "0">>,
      <<"2", "5", "0", "0", "0", "0">>,
      <<"1", ",", "0", "0", "0", ",", "0", "0", "0">>,
      <<"2", "%", " ", "o", "f", " ", "a", "s", "s", "e", "t", "s">>,
      <<"N", "e", "g", "o", "t", "i", "a", "b", "l", "e">> }

BoundedCells ==
    { Text(BoundedText(a.text, b.text, c.text)) :
        a \in Amounts, b \in Amounts, c \in Percents }

OpenCells == { Text(OpenText(a.text, c.text)) : a \in Amounts, c \in Percents }

\* the cells a single field can hold
FieldCells ==
    BoundedCells \cup OpenCells \cup RangeCells
      \cup { Text(t) : t \in SentinelTexts \cup FieldTexts }
      \cup { FloatCell(<<"2", "5", "0", "0", "0", "0", ".", "0">>) }

PortfolioValues == {250000, 1000000, 6000000}

\* np.random.uniform(0.5, 2.0) and np.random.uniform(0.3, 1.5): two draws each
RandomDraws == { <<Rat(1, 2), Rat(3, 10)>>, <<Rat(2, 1), Rat(3, 2)>> }

-----------------------------------------------------------------------------
(* The scripts, one row of the data frame at a time *)

Init ==
    /\ pc = "loaded"
    /\ impl = "none"
    /\ row \in Rows
    /\ has_flat_fee = 0
    /\ flat_fee_value = None
    /\ product_count = 0
    /\ products = <<>>
    /\ effective_fee_1M = None
    /\ effective_fee_5M = None
    /\ first_tier_fee_product1 = None
    /\ first_tier_fee_product3 = None
    /\ file = <<>>
    /\ frame = None
    /\ tier_index = 0
    /\ total_fee = Whole(0)
    /\ remaining_value = Whole(0)
    /\ OthersUnused
    /\ portfolio_value = 0
    /\ effective_fee = None
    /\ cell = NaNCell
    /\ fn = "none"
    /\ result = Absent

\* a column assigned from a list of floats and Nones holds NaN for None,
\* unless every element is None
stored(v) == IF v = None THEN {None, NaN} ELSE {v}

Failed == [ok |-> FALSE, has_flat_fee |-> 0, flat_fee_value |-> None,
           product_count |-> 0, products |-> <<>>,
           effective_fee_1M |-> None, effective_fee_5M |-> None,
           first_tier_fee_product1 |-> None, first_tier_fee_product3 |-> None]

\* the fee a product shows: its first tier's, or the flat fee
shown_fee(prods, hits) ==
    IF hits = {} THEN None
    ELSE IF prods[Min(hits)].type = "tiered"
         THEN prods[Min(hits)].tiers[1].fee
         ELSE prods[Min(hits)].fee

\* get_first_tier_fee: of the first product that is tiered with a tier, or
\* flat
get_first_tier_fee(prods) ==
    shown_fee(prods,
              {i \in 1 .. Len(prods) :
                  \/ prods[i].type = "tiered" /\ Len(prods[i].tiers) > 0
                  \/ prods[i].type = "flat"})

\* get_product3_first_tier_fee: of the third product of the list
get_product3_first_tier_fee(prods) ==
    IF Len(prods) < 3 THEN None
    ELSE shown_fee(prods,
                   {i \in {3} :
                       \/ prods[i].type = "tiered" /\ Len(prods[i].tiers) > 0
                       \/ prods[i].type = "flat"})

\* the derived columns of the row
derived(flag, v, found) ==
    IF found.raised THEN Failed
    ELSE [ok |-> TRUE, has_flat_fee |-> flag, flat_fee_value |-> v,
          product_count |-> found.count, products |-> found.products,
          effective_fee_1M |->
              calculate_effective_fee(found.products, Whole(1000000)),
          effective_fee_5M |->
              calculate_effective_fee(found.products, Whole(5000000)),
          first_tier_fee_product1 |-> get_first_tier_fee(found.products),
          first_tier_fee_product3 |->
              get_product3_first_tier_fee(found.products)]

\* process_csv_file of enhanced_fee_analysis.py on the row r: the outcomes
\* it can have
process_csv_file(r, flat) ==
    IF flat.raised THEN {Failed}
    ELSE {derived(flat.flag, v, identify_products(flat.flag, v, r.ranges)) :
             v \in stored(flat.value)}

Store(out) ==
    /\ pc' = IF out.ok THEN "processed" ELSE "failed"
    /\ has_flat_fee' = out.has_flat_fee
    /\ flat_fee_value' = out.flat_fee_value
    /\ product_count' = out.product_count
    /\ products' = out.products
    /\ effective_fee_1M' = out.effective_fee_1M
    /\ effective_fee_5M' = out.effective_fee_5M
    /\ first_tier_fee_product1' = out.first_tier_fee_product1
    /\ first_tier_fee_product3' = out.first_tier_fee_product3

\* process_csv_file; any exception makes it return None instead of the frame
ProcessCsvFile ==
    /\ pc = "loaded"
    /\ \E out \in process_csv_file(row, process_flat_fee(row.flat)) : Store(out)
    /\ impl' = "main"
    /\ UNCHANGED <<row, portfolio_value, effective_fee, cell, fn, result,
                   file, frame, tier_index, total_fee, remaining_value>>
    /\ UNCHANGED other_vars

derived_step3(flag, v, found, draw) ==
    [ok |-> TRUE, has_flat_fee |-> flag, flat_fee_value |-> v,
     product_count |-> found.count, products |-> found.products,
     effective_fee_1M |-> draw[1], effective_fee_5M |-> draw[2],
     first_tier_fee_product1 |-> None, first_tier_fee_product3 |-> None]

\* enhanced_fee_analysis_step2.py then enhanced_fee_analysis_step3.py on the
\* row r; the flat fee value passes through step2_flat_fee.csv, where None
\* is NaN; the effective fees are the random draws
step3_script(r, flat) ==
    IF flat.raised THEN {Failed}
    ELSE {derived_step3(flat.flag,
                        IF flat.value = None THEN NaN ELSE flat.value,
                        identify_products_step3(
                            flat.flag,
                            IF flat.value = None THEN NaN ELSE flat.value,
                            r.ranges),
                        draw) : draw \in RandomDraws}

Step3Script ==
    /\ pc = "loaded"
    /\ \E out \in step3_script(row, process_flat_fee(row.flat)) : Store(out)
    /\ impl' = "step3"
    /\ UNCHANGED <<row, portfolio_value, effective_fee, cell, fn, result,
                   file, frame, tier_index, total_fee, remaining_value>>
    /\ UNCHANGED other_vars

\* calculate_effective_fee(products, portfolio_value) on the products of the
\* row, for a portfolio value the caller chooses
CalculateEffectiveFee ==
    /\ pc = "processed"
    /\ \E v \in PortfolioValues :
          /\ portfolio_value' = v
          /\ effective_fee' = calculate_effective_fee(products, Whole(v))
    /\ pc' = "calculated"
    /\ UNCHANGED <<impl, row, has_flat_fee, flat_fee_value, product_count,
                   products, effective_fee_1M, effective_fee_5M,
                   first_tier_fee_product1, first_tier_fee_product3, cell, fn,
                   result, file, frame, tier_index, total_fee,
                   remaining_value>>
    /\ UNCHANGED other_vars

Next == ProcessCsvFile \/ Step3Script \/ CalculateEffectiveFee

Spec == Init /\ [][Next]_vars

-----------------------------------------------------------------------------
(* The functions of one field, on one cell *)

InitField ==
    /\ pc = "cell"
    /\ impl = "none"
    /\ row = Row(NaNCell, [i \in 1 .. MaxCells |-> NaNCell])
    /\ has_flat_fee = 0
    /\ flat_fee_value = None
    /\ product_count = 0
    /\ products = <<>>
    /\ effective_fee_1M = None
    /\ effective_fee_5M = None
    /\ first_tier_fee_product1 = None
    /\ first_tier_fee_product3 = None
    /\ file = <<>>
    /\ frame = None
    /\ tier_index = 0
    /\ total_fee = Whole(0)
    /\ remaining_value = Whole(0)
    /\ OthersUnused
    /\ portfolio_value = 0
    /\ effective_fee = None
    /\ cell \in FieldCells
    /\ fn = "none"
    /\ result = Absent

\* the call name(cell) returns or raises r
Call(name, r) ==
    /\ pc = "cell"
    /\ pc' = "returned"
    /\ fn' = name
    /\ result' = r
    /\ UNCHANGED <<impl, row, has_flat_fee, flat_fee_value, product_count,
                   products, effective_fee_1M, effective_fee_5M,
                   first_tier_fee_product1, first_tier_fee_product3,
                   portfolio_value, effective_fee, cell, file, frame,
                   tier_index, total_fee, remaining_value>>
    /\ UNCHANGED other_vars

ExtractFeeRange == Call("extract_fee_range", extract_fee_range(cell))

ExtractFeeRangeStep3 ==
    Call("extract_fee_range_step3", extract_fee_range_step3(cell))

ProcessFlatFee == Call("process_flat_fee", process_flat_fee(cell))

ProcessMinimumInvestment ==
    Call("process_minimum_investment", process_minimum_investment(cell))

ProcessMinimumInvestmentStep4 ==
    Call("process_minimum_investment_step4",
         process_minimum_investment_step4(cell))

ProcessNegotiableThreshold ==
    Call("process_negotiable_threshold", process_negotiable_threshold(cell))

ProcessNegotiableThresholdStep4 ==
    Call("process_negotiable_threshold_step4",
         process_negotiable_threshold_step4(cell))

NextField ==
    \/ ExtractFeeRange
    \/ ExtractFeeRangeStep3
    \/ ProcessFlatFee
    \/ ProcessMinimumInvestment
    \/ ProcessMinimumInvestmentStep4
    \/ ProcessNegotiableThreshold
    \/ ProcessNegotiableThresholdStep4

SpecField == InitField /\ [][NextField]_vars

-----------------------------------------------------------------------------
(* process_csv_file on a file of several rows *)

\* rows of a file
MaxRows == 2

\* the row with the threshold cells c and d in columns 1 and 2
FileRow(f, c, d) ==
    Row(f, [i \in 1 .. MaxCells |-> IF i = 1 THEN c ELSE IF i = 2 THEN d ELSE NaNCell])

\* rows of a file whose threshold column 2 holds text: read_csv keeps the
\* cells as text
TextRows ==
    { FileRow(f, c, d) :
        f \in {NaNCell, Text(<<"Y", "e", "s">>), Text(<<"1", ".", "5", "%">>)},
        c \in {NaNCell, Text(BoundedText(Chars(0), Chars(500000), <<"1", ".", "2">>))},
        d \in {Text(<<"-", "1">>), Text(OpenText(Chars(500000), <<"1", ".", "0">>))} }

\* rows of a file whose threshold column 2 holds only -1 and blanks:
\* read_csv makes the cells numbers
NumericRows ==
    { FileRow(f, c, d) :
        f \in {NaNCell, Text(<<"Y", "e", "s">>), Text(<<"1", ".", "5", "%">>)},
        c \in {NaNCell, Text(BoundedText(Chars(0), Chars(500000), <<"1", ".", "2">>))},
        d \in {NaNCell, FloatCell(<<"-", "1", ".", "0">>)} }

Files == [1 .. MaxRows -> TextRows] \cup [1 .. MaxRows -> NumericRows]

InitFile ==
    /\ pc = "file"
    /\ impl = "none"
    /\ row = Row(NaNCell, [i \in 1 .. MaxCells |-> NaNCell])
    /\ has_flat_fee = 0
    /\ flat_fee_value = None
    /\ product_count = 0
    /\ products = <<>>
    /\ effective_fee_1M = None
    /\ effective_fee_5M = None
    /\ first_tier_fee_product1 = None
    /\ first_tier_fee_product3 = None
    /\ portfolio_value = 0
    /\ effective_fee = None
    /\ cell = NaNCell
    /\ fn = "none"
    /\ result = Absent
    /\ file \in Files
    /\ frame = None
    /\ tier_index = 0
    /\ total_fee = Whole(0)
    /\ remaining_value = Whole(0)
    /\ OthersUnused

\* the value the flat_fee_value column holds for v: the column made of
\* numbers and Nones is a float column, with NaN for None
stored_in(v, flat) ==
    IF v = None /\ \E k \in DOMAIN flat : flat[k].value # None THEN NaN ELSE v

\* the derived columns of the rows, given the flat fees of the rows
derived_rows(rows, flat) ==
    [i \in DOMAIN rows |->
        derived(flat[i].flag, stored_in(flat[i].value, flat),
                identify_products(flat[i].flag, stored_in(flat[i].value, flat),
                                  rows[i].ranges))]

\* the frame process_csv_file returns, None when anything raised
frame_of(out) == IF \E i \in DOMAIN out : ~out[i].ok THEN None ELSE out

process_csv_rows(rows, flat) ==
    IF \E i \in DOMAIN flat : flat[i].raised THEN None
    ELSE frame_of(derived_rows(rows, flat))

\* process_csv_file on the file: every column is derived for all rows
\* inside one try block
ProcessCsvRows ==
    /\ pc = "file"
    /\ pc' = "returned"
    /\ impl' = "main"
    /\ frame' = process_csv_rows(file, [i \in DOMAIN file |->
                                          process_flat_fee(file[i].flat)])
    /\ UNCHANGED <<row, has_flat_fee, flat_fee_value, product_count,
                   products, effective_fee_1M, effective_fee_5M,
                   first_tier_fee_product1, first_tier_fee_product3,
                   portfolio_value, effective_fee, cell, fn, result, file,
                   tier_index, total_fee, remaining_value>>
    /\ UNCHANGED other_vars

NextFile == ProcessCsvRows

SpecFile == InitFile /\ [][NextFile]_vars

-----------------------------------------------------------------------------
(* The loop of calculate_effective_fee over the tiers, one tier at a time *)

\* the product lists with a tiered product that identify_products returns
\* for the rows without a flat fee
TieredLists ==
    { identify_products(0, None, r.ranges).products : r \in Rows } \ {<<>>}

InitWalk ==
    /\ pc = "walking"
    /\ impl = "main"
    /\ row = Row(NaNCell, [i \in 1 .. MaxCells |-> NaNCell])
    /\ has_flat_fee = 0
    /\ flat_fee_value = None
    /\ products \in TieredLists
    /\ product_count = Len(products)
    /\ effective_fee_1M = None
    /\ effective_fee_5M = None
    /\ first_tier_fee_product1 = None
    /\ first_tier_fee_product3 = None
    /\ portfolio_value \in PortfolioValues
    /\ effective_fee = None
    /\ cell = NaNCell
    /\ fn = "none"
    /\ result = Absent
    /\ file = <<>>
    /\ frame = None
    /\ tier_index = 1
    /\ total_fee = Whole(0)
    /\ remaining_value = Whole(portfolio_value)
    /\ OthersUnused

\* the value of the portfolio the tier takes: all that remains for an
\* unbounded tier, else min(upper - lower, remaining_value)
tier_value_without_min(tier, remaining) ==
    IF tier.upper = Inf THEN remaining ELSE RSub(tier.upper, tier.lower)

tier_value(tier, remaining) ==
    IF tier.upper = Inf THEN remaining
    ELSE RMin(RSub(tier.upper, tier.lower), remaining)

\* the tiers of the first tiered product
walked_tiers == SelectSeq(products, LAMBDA p : p.type = "tiered")[1].tiers

\* one pass of the loop body: the tier is charged
ChargeTier ==
    /\ pc = "walking"
    /\ tier_index <= Len(walked_tiers)
    /\ ~RLe(remaining_value, Whole(0))
    /\ total_fee' =
          RAdd(total_fee,
               RMul(tier_value(walked_tiers[tier_index], remaining_value),
                    RDiv(walked_tiers[tier_index].fee, Whole(100))))
    /\ remaining_value' =
          RSub(remaining_value,
               tier_value(walked_tiers[tier_index], remaining_value))
    /\ tier_index' = tier_index + 1
    /\ UNCHANGED <<pc, impl, row, has_flat_fee, flat_fee_value, product_count,
                   products, effective_fee_1M, effective_fee_5M,
                   first_tier_fee_product1, first_tier_fee_product3,
                   portfolio_value, effective_fee, cell, fn, result, file,
                   frame>>
    /\ UNCHANGED other_vars

\* the loop ends, by break or after the last tier, and the rate is returned
ReturnRate ==
    /\ pc = "walking"
    /\ tier_index > Len(walked_tiers) \/ RLe(remaining_value, Whole(0))
    /\ effective_fee' =
          RMul(RDiv(total_fee, Whole(portfolio_value)), Whole(100))
    /\ pc' = "calculated"
    /\ UNCHANGED <<impl, row, has_flat_fee, flat_fee_value, product_count,
                   products, effective_fee_1M, effective_fee_5M,
                   first_tier_fee_product1, first_tier_fee_product3,
                   portfolio_value, cell, fn, result, file, frame, tier_index,
                   total_fee, remaining_value>>
    /\ UNCHANGED other_vars

NextWalk == ChargeTier \/ ReturnRate

SpecWalk == InitWalk /\ [][NextWalk]_vars

-----------------------------------------------------------------------------
(* run_fee_analysis.py: main runs the scripts one after the other *)

\* the fee scripts are not running
FeesUnused ==
    /\ impl = "none"
    /\ row = Row(NaNCell, [i \in 1 .. MaxCells |-> NaNCell])
    /\ has_flat_fee = 0
    /\ flat_fee_value = None
    /\ product_count = 0
    /\ products = <<>>
    /\ effective_fee_1M = None
    /\ effective_fee_5M = None
    /\ first_tier_fee_product1 = None
    /\ first_tier_fee_product3 = None
    /\ portfolio_value = 0
    /\ effective_fee = None
    /\ cell = NaNCell
    /\ fn = "none"
    /\ result = Absent
    /\ file = <<>>
    /\ frame = None
    /\ tier_index = 0
    /\ total_fee = Whole(0)
    /\ remaining_value = Whole(0)

\* what os.system returns for a script: 0, or the wait status of an exit
\* code other than 0
ExitCodes == {0, 256, 512, 32512}

InitPipeline ==
    /\ pc = "main"
    /\ FeesUnused
    /\ data_exists \in BOOLEAN
    /\ exit_codes = <<>>
    /\ ran = <<>>
    /\ returned = "none"
    /\ dataframes = <<>>
    /\ combined_df = None
    /\ df = <<>>
    /\ corrected_df = <<>>
    /\ misplaced_count = 0

\* run_script that reports success whatever the exit code
run_script_always(exit_code) == TRUE

\* what run_script returns for the exit code of the script
run_script(exit_code) == exit_code = 0

\* os.system runs the script, which ends with exit_code
Ran(script_name, exit_code) ==
    /\ ran' = Append(ran, script_name)
    /\ exit_codes' = Append(exit_codes, exit_code)

\* main tests that the data file exists and makes the output directory
CheckDataFile ==
    /\ pc = "main"
    /\ IF data_exists
       THEN pc' = "cleaning" /\ returned' = returned
       ELSE pc' = "returned" /\ returned' = "False"
    /\ UNCHANGED <<data_exists, exit_codes, ran>>
    /\ UNCHANGED <<fee_vars, clean_vars, misplaced_vars>>

RunCleaning ==
    /\ pc = "cleaning"
    /\ \E exit_code \in ExitCodes :
          /\ Ran("fee_data_cleaning.py", exit_code)
          /\ IF run_script(exit_code)
             THEN pc' = "structure" /\ returned' = returned
             ELSE pc' = "returned" /\ returned' = "False"
    /\ UNCHANGED data_exists
    /\ UNCHANGED <<fee_vars, clean_vars, misplaced_vars>>

\* a script whose failure main only reports
RunAndContinue(here, script_name, next) ==
    /\ pc = here
    /\ \E exit_code \in ExitCodes :
          /\ Ran(script_name, exit_code)
          /\ pc' = IF run_script(exit_code) THEN next ELSE next
    /\ UNCHANGED <<data_exists, returned>>
    /\ UNCHANGED <<fee_vars, clean_vars, misplaced_vars>>

RunStructure ==
    RunAndContinue("structure", "fee_structure_analysis.py", "visualization")

RunVisualization ==
    RunAndContinue("visualization", "fee_visualization.py", "products")

RunProducts ==
    RunAndContinue("products", "multiple_products_analysis.py", "report")

\* generate_summary_report inside try: it returns (0) or raises (1), and
\* main returns True
GenerateSummaryReport ==
    /\ pc = "report"
    /\ \E raised \in {0, 1} : Ran("generate_summary_report", raised)
    /\ pc' = "returned"
    /\ returned' = "True"
    /\ UNCHANGED data_exists
    /\ UNCHANGED <<fee_vars, clean_vars, misplaced_vars>>

NextPipeline ==
    \/ CheckDataFile
    \/ RunCleaning
    \/ RunStructure
    \/ RunVisualization
    \/ RunProducts
    \/ GenerateSummaryReport

SpecPipeline == InitPipeline /\ [][NextPipeline]_vars

-----------------------------------------------------------------------------
(* clean_and_consolidate_data: one row per adviser and year *)

MaxFrames == 2

\* a row of a processed frame; filing_date is a year and a day of that year
Filing(id1, date, flat, count, fee) ==
    [ adviser_id1 |-> id1, adviser_id2 |-> "A", filing_date |-> date,
      has_flat_fee |-> flat, product_count |-> count,
      first_tier_fee_product1 |-> fee ]

\* rows as process_csv_file writes them: without fee information, with a
\* tiered product, and with a flat fee above 5 percent
Filings ==
    { Filing(id1, date, fees[1], fees[2], fees[3]) :
        id1 \in {1, 2},
        date \in {<<2020, 1>>, <<2020, 2>>, <<2021, 1>>},
        fees \in {<<0, 0, None>>, <<0, 1, Whole(1)>>, <<1, 1, Whole(6)>>} }

\* lists of at most MaxFrames frames of one row each
FrameLists ==
    UNION { [1 .. n -> {<<r>> : r \in Filings}] : n \in 0 .. MaxFrames }

InitClean ==
    /\ pc = "consolidating"
    /\ FeesUnused
    /\ data_exists = FALSE
    /\ exit_codes = <<>>
    /\ ran = <<>>
    /\ returned = "none"
    /\ dataframes \in FrameLists
    /\ combined_df = None
    /\ df = <<>>
    /\ corrected_df = <<>>
    /\ misplaced_count = 0

\* pd.concat(dataframes, ignore_index=True)
RECURSIVE concat(_)
concat(frames) ==
    IF frames = <<>> THEN <<>> ELSE Head(frames) \o concat(Tail(frames))

\* the columns filing_year and has_fee_info of a row
with_fee_info(r) ==
    [ adviser_id1 |-> r.adviser_id1, adviser_id2 |-> r.adviser_id2,
      filing_date |-> r.filing_date, has_flat_fee |-> r.has_flat_fee,
      product_count |-> r.product_count,
      first_tier_fee_product1 |-> r.first_tier_fee_product1,
      filing_year |-> r.filing_date[1],
      has_fee_info |-> (r.has_flat_fee = 1 \/ r.product_count > 0) ]

\* filing_date a is not before filing_date b
NotBefore(a, b) == a[1] > b[1] \/ (a[1] = b[1] /\ a[2] >= b[2])

\* the orders sort_values('filing_date', ascending=False) can give: the
\* default sort is not stable, so rows of one date come in any order
sort_values(rows) ==
    { [i \in DOMAIN rows |-> rows[order[i]]] :
        order \in { o \in [DOMAIN rows -> DOMAIN rows] :
                      /\ \A i, j \in DOMAIN rows : i # j => o[i] # o[j]
                      /\ \A i, j \in DOMAIN rows :
                            i < j => NotBefore(rows[o[i]].filing_date,
                                               rows[o[j]].filing_date) } }

\* the columns drop_duplicates compares
subset(r) == <<r.adviser_id1, r.adviser_id2, r.filing_year, r.has_fee_info>>

\* drop_duplicates(subset=..., keep='first') on rows 1 .. k
RECURSIVE drop_duplicates(_, _)
drop_duplicates(rows, k) ==
    IF k = 0 THEN <<>>
    ELSE IF \E j \in 1 .. k - 1 : subset(rows[j]) = subset(rows[k])
         THEN drop_duplicates(rows, k - 1)
         ELSE Append(drop_duplicates(rows, k - 1), rows[k])

\* first_tier_fee_product1 is above 5 or is 0 (False for a missing fee)
is_outlier(r) ==
    /\ IsNum(r.first_tier_fee_product1)
    /\ \/ RLt(Whole(5), r.first_tier_fee_product1)
       \/ r.first_tier_fee_product1 = Whole(0)

CleanAndConsolidate ==
    /\ pc = "consolidating"
    /\ pc' = "consolidated"
    /\ IF dataframes = <<>>
       THEN combined_df' = None
       ELSE \E sorted \in
                 sort_values([i \in DOMAIN concat(dataframes) |->
                                 with_fee_info(concat(dataframes)[i])]) :
               combined_df' =
                   SelectSeq(drop_duplicates(sorted, Len(sorted)),
                             LAMBDA r : ~is_outlier(r))
    /\ UNCHANGED dataframes
    /\ UNCHANGED <<fee_vars, pipeline_vars, misplaced_vars>>

NextClean == CleanAndConsolidate

SpecClean == InitClean /\ [][NextClean]_vars

-----------------------------------------------------------------------------
(* fee_structure_analysis.py: detect_misplaced_answers moves a fee range   *)
(* found in another column into a threshold column                         *)

\* df.columns, in the order of the file
columns ==
    << "File Name", "Flat fee (Number / No)",
       "Annual fee range 1 (Range and fee % / N/A)",
       "Annual fee range 2 (Range and fee % / N/A)",
       "Minimum investment (Amount / No)" >>

\* the columns whose name has 'threshold' or 'Annual fee range' in it
threshold_cols ==
    SelectSeq(columns,
              LAMBDA col : col \in {"Annual fee range 1 (Range and fee % / N/A)",
                                    "Annual fee range 2 (Range and fee % / N/A)"})

\* [0-9,.] and [0-9.]
AmountChars == Digits \cup {",", "."}

PercentChars == Digits \cup {"."}

\* the ends of  \s*-\s*  from the positions E
DashEnds(t, E) ==
    Star(t, {e + 1 : e \in {x \in Star(t, E, Whitespace) : At(t, x) = "-"}},
         Whitespace)

\* (?:%|\s*-\s*[0-9.]+%|\))  matches at position s
closes_at(t, s) ==
    \/ At(t, s) \in {"%", ")"}
    \/ \E a \in DashEnds(t, {s}) :
          /\ At(t, a) \in PercentChars
          /\ \E e \in (a + 1) .. RunEnd(t, a, PercentChars) : At(t, e) = "%"

\* re.search(threshold_pattern, t) finds a match: a character of [0-9,.],
\* the separator, a character of [0-9,.+], and later a character of [0-9.]
\* before the closing part
threshold_search(t) ==
    \E q \in DOMAIN t :
        /\ At(t, q) \in AmountChars
        /\ LET dollar == {e + 1 : e \in {x \in DashEnds(t, {q + 1}) :
                                            At(t, x) = "$"}}
               one == IF At(t, q + 1) \in Whitespace \cup {"+"}
                      THEN {q + 2} ELSE {}
           IN  \E c \in dollar \cup one :
                   /\ At(t, c) \in AmountChars \cup {"+"}
                   /\ \E e \in (c + 1) .. Len(t) :
                         At(t, e) \in PercentChars /\ closes_at(t, e + 1)

\* pd.isna(x) or x == '-1' or x == 'N/a'
is_empty_threshold(x) ==
    isna(x) \/ x = Text(<<"-", "1">>) \/ x = Text(<<"N", "/", "a">>)

ThresholdCells ==
    { NaNCell, Text(<<"-", "1">>), Text(<<"N", "/", "a">>),
      Text(<<"$", "0", "+", " ", "(", "1", "%", ")">>) }

AnswerCells ==
    { NaNCell, Text(<<"N", "o">>),
      Text(<<"$", "0", " ", "-", " ", "$", "5", "0", "0", ",", "0", "0", "0",
             " ", "(", "1", ".", "2", "%", ")">>),
      Text(<<"$", "5", "0", "0", ",", "0", "0", "0", "+", " ", "(", "1", ".",
             "0", "%", ")">>) }

\* the rows of the frame: one cell per column
AnswerRows ==
    { [col \in {columns[i] : i \in DOMAIN columns} |->
          CASE col = columns[1] -> Text(<<"1", "_", "2", ".", "t", "x", "t">>)
            [] col = columns[2] -> c[1]
            [] col = columns[3] -> c[2]
            [] col = columns[4] -> c[3]
            [] OTHER -> c[4]] :
        c \in AnswerCells \X ThresholdCells \X ThresholdCells \X AnswerCells }

InitMisplaced ==
    /\ pc = "detecting"
    /\ FeesUnused
    /\ data_exists = FALSE
    /\ exit_codes = <<>>
    /\ ran = <<>>
    /\ returned = "none"
    /\ dataframes = <<>>
    /\ combined_df = None
    /\ df \in UNION {[1 .. n -> AnswerRows] : n \in 1 .. MaxRows}
    /\ corrected_df = <<>>
    /\ misplaced_count = 0

\* the loop over df.columns for one row, from column i: the corrected row
\* and the number of answers moved.  The empty threshold column is looked
\* up in the row of df.
RECURSIVE move_answers(_, _, _)
move_answers(original, corrected, i) ==
    IF i > Len(columns) THEN [row |-> corrected, count |-> 0]
    ELSE LET col == columns[i]
             value == original[col]
             empty == {k \in DOMAIN threshold_cols :
                          is_empty_threshold(original[threshold_cols[k]])}
         IN  IF \/ \E k \in DOMAIN threshold_cols : threshold_cols[k] = col
                \/ col = "File Name"
                \/ isna(value)
                \/ value = Text(<<"-", "1">>)
                \/ ~(value.kind = "str" /\ threshold_search(value.s))
                \/ empty = {}
             THEN move_answers(original, corrected, i + 1)
             ELSE LET moved ==
                          [corrected EXCEPT ![threshold_cols[Min(empty)]] = value,
                                            ![col] = NaNCell]
                      rest == move_answers(original, moved, i + 1)
                  IN  [row |-> rest.row, count |-> rest.count + 1]

\* the body of the loop over df.iterrows() for one row
correct_row(original) ==
    IF \A k \in DOMAIN threshold_cols :
           is_empty_threshold(original[threshold_cols[k]])
    THEN move_answers(original, original, 1)
    ELSE [row |-> original, count |-> 0]

RECURSIVE count_moved(_, _)
count_moved(rows, k) ==
    IF k = 0 THEN 0 ELSE count_moved(rows, k - 1) + correct_row(rows[k]).count

DetectMisplacedAnswers ==
    /\ pc = "detecting"
    /\ pc' = "detected"
    /\ corrected_df' = [idx \in DOMAIN df |-> correct_row(df[idx]).row]
    /\ misplaced_count' = count_moved(df, Len(df))
    /\ UNCHANGED df
    /\ UNCHANGED <<fee_vars, pipeline_vars, clean_vars>>

NextMisplaced == DetectMisplacedAnswers

SpecMisplaced == InitMisplaced /\ [][NextMisplaced]_vars

-----------------------------------------------------------------------------
(* Properties of the range extractor, on one cell *)

\* the range (l, u, f) as extract_fee_range returns it
Range(l, u, f) == [raised |-> FALSE, lower |-> l, upper |-> u, fee |-> f]

Extractors == {"extract_fee_range", "extract_fee_range_step3"}

\* C1: for a cell "$A - $B (C%)" with A and B written with thousands
\* separators, both copies of extract_fee_range return (A, B, C).
C1_BoundedRangeExtracted ==
    \A a \in Amounts, b \in Amounts, c \in Percents :
        (fn \in Extractors /\ cell = Text(BoundedText(a.text, b.text, c.text)))
            => result = Range(Whole(a.value), Whole(b.value), c.value)

\* C2: for a cell "$A+ (C%)" with A written with thousands separators, both
\* copies of extract_fee_range return (A, unbounded, C); "$1,000,000+ (0.5%)"
\* gives (1000000, unbounded, 0.5).
C2_OpenRangeExtracted ==
    \A a \in Amounts, c \in Percents :
        (fn \in Extractors /\ cell = Text(OpenText(a.text, c.text)))
            => result = Range(Whole(a.value), Inf, c.value)

-----------------------------------------------------------------------------
(* Properties of the segmenter and the calculator, on one row *)

\* identify_products has returned the products of the row
Processed == pc \in {"processed", "calculated"}

\* the extraction of threshold column i by the copy that processed the row
extracted(i) ==
    IF impl = "step3" THEN fee_range_of_step3[row.ranges[i]]
    ELSE fee_range_of[row.ranges[i]]

\* a range the segmenter retains: it has a lower bound and a fee
IsRetained(r) == ~r.raised /\ r.lower # None /\ r.fee # None

\* the retained ranges of the row, in column order
RetainedRanges ==
    SelectSeq([i \in 1 .. NumRanges |-> extracted(i)], IsRetained)

\* lower, upper and fee of the tiers of a product
TiersOf(p) ==
    [k \in DOMAIN p.tiers |->
        Range(p.tiers[k].lower, p.tiers[k].upper, p.tiers[k].fee)]

TieredProducts == SelectSeq(products, LAMBDA p : p.type = "tiered")

RestartingRanges ==
    << Range(Whole(0), Whole(500000), Rat(6, 5)),
       Range(Whole(500000), Inf, Rat(1, 1)),
       Range(Whole(0), Whole(1000000), Rat(4, 5)) >>

\* C3: the ranges (0, 500000, 1.2%), (500000, unbounded, 1.0%),
\* (0, 1000000, 0.8%) in columns 1..3 with no flat fee give exactly two
\* products, both tiered, in both copies of identify_products.
C3_RestartGivesTwoProducts ==
    (/\ Processed
     /\ has_flat_fee = 0
     /\ \A i \in 1 .. 3 : extracted(i) = RestartingRanges[i]
     /\ \A i \in 4 .. NumRanges : ~IsRetained(extracted(i)))
        => /\ product_count = 2
           /\ Len(products) = 2
           /\ \A k \in DOMAIN products : products[k].type = "tiered"

Bounded(v) == v \notin {None, Inf, NaN}

\* rs is one contiguous chain of ranges, each written lower below upper
IsChain(rs) ==
    /\ rs # <<>>
    /\ \A k \in DOMAIN rs : Bounded(rs[k].upper) => RLt(rs[k].lower, rs[k].upper)
    /\ \A k \in 1 .. Len(rs) - 1 :
          /\ Bounded(rs[k].upper)
          /\ RLt(RSub(rs[k + 1].lower, rs[k].upper), Tolerance)
          /\ RLt(RSub(rs[k].upper, rs[k + 1].lower), Tolerance)

ChainRanges ==
    << Range(Whole(0), Whole(1000000), Rat(1, 1)),
       Range(Whole(1000000), Whole(5000000), Rat(3, 4)),
       Range(Whole(5000000), Inf, Rat(1, 2)) >>

\* C4: when the retained ranges of a row form one contiguous chain and the
\* row has no flat fee, identify_products (both copies) returns exactly one
\* product, a tiered one whose tiers are those ranges in that order, which is
\* ascending.
C4_ChainIsOneProduct ==
    (Processed /\ has_flat_fee = 0 /\ IsChain(RetainedRanges))
        => /\ product_count = 1
           /\ Len(products) = 1
           /\ products[1].type = "tiered"
           /\ TiersOf(products[1]) =
                 [k \in DOMAIN RetainedRanges |->
                     Range(RetainedRanges[k].lower,
                           IF RetainedRanges[k].upper = None THEN Inf
                           ELSE RetainedRanges[k].upper,
                           RetainedRanges[k].fee)]
           /\ \A k \in 1 .. Len(products[1].tiers) - 1 :
                 RLe(products[1].tiers[k].lower, products[1].tiers[k + 1].lower)

C4_Witness ==
    /\ pc = "processed"
    /\ impl = "step3"
    /\ has_flat_fee = 0
    /\ RetainedRanges = ChainRanges
    /\ product_count = 1
    /\ TiersOf(products[1]) = ChainRanges

\* the value still remaining before tier i, and the value tier i consumes:
\* the tier's width or what remains, whichever is less; all that remains
\* for an unbounded tier; nothing once nothing remains
RECURSIVE remaining_before(_, _, _)
RECURSIVE consumed(_, _, _)
remaining_before(tiers, V, i) ==
    IF i = 1 THEN V
    ELSE RSub(remaining_before(tiers, V, i - 1), consumed(tiers, V, i - 1))

consumed(tiers, V, i) ==
    IF RLe(remaining_before(tiers, V, i), Whole(0)) THEN Whole(0)
    ELSE IF tiers[i].upper = Inf THEN remaining_before(tiers, V, i)
    ELSE RMin(RSub(tiers[i].upper, tiers[i].lower), remaining_before(tiers, V, i))

RECURSIVE fee_up_to(_, _, _)
fee_up_to(tiers, V, i) ==
    IF i = 0 THEN Whole(0)
    ELSE RAdd(fee_up_to(tiers, V, i - 1),
              RDiv(RMul(consumed(tiers, V, i), tiers[i].fee), Whole(100)))

\* (sum over the tiers of consumed_i * rate_i / 100) / V * 100
blended_rate(tiers, V) ==
    RMul(RDiv(fee_up_to(tiers, V, Len(tiers)), V), Whole(100))

\* C5: for a tiered product and a portfolio value V > 0,
\* calculate_effective_fee returns the sum over its tiers of the value each
\* consumes times its rate, as a percentage of V; for the tiers
\* (0, 1000000, 1.0%), (1000000, 5000000, 0.75%), (5000000, unbounded, 0.5%)
\* that is 1.0 at V = 1000000 and 0.75 at V = 6000000.
C5_BlendedRateOfTiers ==
    (pc = "calculated" /\ TieredProducts # <<>>)
        => /\ effective_fee =
                 blended_rate(TieredProducts[1].tiers, Whole(portfolio_value))
           /\ (TiersOf(TieredProducts[1]) = ChainRanges /\ portfolio_value = 1000000)
                 => effective_fee = Whole(1)
           /\ (TiersOf(TieredProducts[1]) = ChainRanges /\ portfolio_value = 6000000)
                 => effective_fee = Rat(3, 4)

C5_Witness ==
    /\ pc = "calculated"
    /\ TieredProducts # <<>>
    /\ TiersOf(TieredProducts[1]) = ChainRanges
    /\ portfolio_value = 6000000
    /\ effective_fee = Rat(3, 4)

\* C6 as stated: calculate_effective_fee returns None for the empty product
\* list and a number for every other list identify_products returns.
C6_NumberUnlessEmpty ==
    pc = "calculated"
        => /\ products = <<>> => effective_fee = None
           /\ products # <<>> => IsNum(effective_fee)

FlatProducts == SelectSeq(products, LAMBDA p : p.type = "flat")

\* C6 amended: calculate_effective_fee returns None for the empty product
\* list; for any other list identify_products returns it returns a number
\* exactly when the list holds a tiered product or its first flat product
\* has a known value, and otherwise hands back that unknown value (None, or
\* the NaN the flat_fee_value column stored for it).
C6_NumberUnlessEmptyOrUnknownFlat ==
    pc = "calculated"
        => /\ products = <<>> => effective_fee = None
           /\ products # <<>> =>
                 /\ IsNum(effective_fee) <=>
                       \/ TieredProducts # <<>>
                       \/ IsNum(FlatProducts[1].fee)
                 /\ ~IsNum(effective_fee) =>
                       /\ effective_fee \in {None, NaN}
                       /\ effective_fee = FlatProducts[1].fee

C6_Witness ==
    /\ pc = "calculated"
    /\ impl = "main"
    /\ row.flat = Text(<<"Y", "e", "s">>)
    /\ product_count = 1
    /\ products[1].type = "flat"
    /\ effective_fee = None

\* C7: a row whose threshold cells are all sentinels (blank, N/A, -1) and
\* which has no flat fee gets an empty product list, product_count = 0, and
\* calculate_effective_fee returns None on it for every portfolio value.
C7_SentinelRowHasNoProducts ==
    (/\ pc # "loaded"
     /\ \A i \in 1 .. NumRanges : row.ranges[i] \in SentinelCells
     /\ row.flat \in {NaNCell, Text(<<"N", "o">>)})
        => /\ Processed
           /\ product_count = 0
           /\ products = <<>>
           /\ pc = "calculated" => effective_fee = None

-----------------------------------------------------------------------------
(* Properties of the field normalizers, on one cell *)

Normalizers ==
    {"process_flat_fee", "process_minimum_investment",
     "process_negotiable_threshold"}

\* empty or blank, "No", "N/A" or "-1", in any letter case
IsSentinelText(t) ==
    \/ Strip(t) = <<>>
    \/ Lower(t) \in {<<"n", "o">>, <<"n", "/", "a">>, <<"-", "1">>}

HasDigit(t) == \E i \in DOMAIN t : t[i] \in Digits

IsYes(t) == Lower(t) \in {<<"y", "e", "s">>, <<"y">>, <<"t", "r", "u", "e">>}

\* C8: every sentinel text (empty or blank, "No", "N/A", "-1", in any letter
\* case) is absent for process_flat_fee, process_minimum_investment and
\* process_negotiable_threshold: flag 0 and no value.
C8_SentinelTextIsAbsent ==
    (fn \in Normalizers /\ cell.kind = "str" /\ IsSentinelText(cell.s))
        => result = Absent

\* C9 as stated: every text that is no sentinel gets flag 1 from each of the
\* three normalizers.
C9_NonSentinelIsPresent ==
    (fn \in Normalizers /\ cell.kind = "str" /\ ~IsSentinelText(cell.s))
        => ~result.raised /\ result.flag = 1

\* C9 amended: a text that is no sentinel gets flag 1 from process_flat_fee
\* whether or not a value can be extracted; from process_minimum_investment
\* it gets flag 1 exactly when it holds a digit or is yes, y or true, and from
\* process_negotiable_threshold exactly when it holds a digit; a text with
\* no digit never gets a value.
C9_PresenceByNormalizer ==
    (fn \in Normalizers /\ cell.kind = "str" /\ ~IsSentinelText(cell.s))
        => /\ ~result.raised
           /\ fn = "process_flat_fee" => result.flag = 1
           /\ fn = "process_minimum_investment"
                 => (result.flag = 1 <=> HasDigit(cell.s) \/ IsYes(cell.s))
           /\ fn = "process_negotiable_threshold"
                 => (result.flag = 1 <=> HasDigit(cell.s))
           /\ ~HasDigit(cell.s) => result.value = None

C9_Witness ==
    /\ fn = "process_flat_fee"
    /\ cell = Text(<<"a", "b", "c">>)
    /\ result = Present(None)

AllNormalizers ==
    Normalizers \cup {"process_minimum_investment_step4",
                      "process_negotiable_threshold_step4"}

\* a "$" not followed by a digit, or a "%" not preceded by a digit
HasLooseMarker(t) ==
    \E i \in DOMAIN t :
        \/ t[i] = "$" /\ (i = Len(t) \/ t[i + 1] \notin Digits)
        \/ t[i] = "%" /\ (i = 1 \/ t[i - 1] \notin Digits)

-----------------------------------------------------------------------------
(* Properties of rows whose text is no fee schedule *)

Unparsed == Text(<<"a", "b", "c">>)

\* the flat fee cell and every threshold cell that holds a value are text
\* that is no sentinel and matches no pattern
UnparsedRow ==
    /\ row.flat = Unparsed
    /\ \A i \in 1 .. MaxCells : row.ranges[i] = Unparsed

\* C11 as stated: a row whose flat fee text and threshold texts are
\* unparseable gets the empty product list, product_count = 0 and no
\* effective fee, and processing does not fail.
C11_UnparsedRowIsEmpty ==
    (UnparsedRow /\ pc # "loaded")
        => /\ Processed
           /\ product_count = 0
           /\ products = <<>>
           /\ pc = "calculated" => effective_fee = None

\* C11 amended: processing does not fail and the row gets no tiered product
\* and no effective fee; identify_products of enhanced_fee_analysis.py
\* returns the one flat product of unknown value (product_count = 1), the
\* copy of enhanced_fee_analysis_step3.py the empty list (product_count = 0).
C11_UnparsedRowHasNoTiers ==
    (UnparsedRow /\ pc # "loaded")
        => /\ Processed
           /\ has_flat_fee = 1
           /\ flat_fee_value \in {None, NaN}
           /\ impl = "main" =>
                 /\ product_count = 1
                 /\ Len(products) = 1
                 /\ products[1].type = "flat"
                 /\ products[1].fee = flat_fee_value
                 /\ effective_fee_1M = flat_fee_value
                 /\ effective_fee_5M = flat_fee_value
           /\ impl = "step3" => product_count = 0 /\ products = <<>>
           /\ pc = "calculated" => effective_fee \in {None, NaN}

C11_Witness ==
    /\ UnparsedRow
    /\ pc = "calculated"
    /\ impl = "main"
    /\ product_count = 1
    /\ effective_fee \in {None, NaN}

-----------------------------------------------------------------------------
(* Properties of a file of several rows *)

\* extract_fee_range raises on a threshold cell of the row r
RaisesOn(r) == \E i \in 1 .. NumRanges : fee_range_of[r.ranges[i]].raised

\* C12: in process_csv_file an exception raised for one field of one row
\* leaves the derived columns of the other fields and of the other rows in
\* place: the frame is returned, every row has its flat fee columns, and
\* every row whose own cells raise nothing has its products, product_count
\* and effective fees.
C12_FailureIsLocal ==
    pc = "returned" =>
        /\ frame # None
        /\ \A i \in DOMAIN file :
              /\ frame[i].has_flat_fee = process_flat_fee(file[i].flat).flag
              /\ ~RaisesOn(file[i]) =>
                    /\ frame[i].ok
                    /\ frame[i].product_count = Len(frame[i].products)
                    /\ frame[i].effective_fee_1M =
                          calculate_effective_fee(frame[i].products,
                                                  Whole(1000000))

-----------------------------------------------------------------------------
(* Properties of the derived columns of a row *)

\* C14: the effective_fee_1M and effective_fee_5M written for a row, by
\* process_csv_file and by the script enhanced_fee_analysis_step3.py, are
\* calculate_effective_fee of the row's products at 1,000,000 and at
\* 5,000,000, and are None for a row without products.
C14_WrittenFeesAreComputed ==
    Processed =>
        /\ effective_fee_1M = calculate_effective_fee(products, Whole(1000000))
        /\ effective_fee_5M = calculate_effective_fee(products, Whole(5000000))
        /\ products = <<>> => effective_fee_1M = None /\ effective_fee_5M = None

\* the ordering key of the product p: its first tier's fee, or its flat fee
ordering_key(p) == IF p.type = "tiered" THEN p.tiers[1].fee ELSE p.fee

\* the products of the row that have an ordering key
Keyed == {i \in DOMAIN products : IsNum(ordering_key(products[i]))}

\* C15: first_tier_fee_product1 is the smallest ordering key of the row's
\* products (absent when no product has a key) and first_tier_fee_product3
\* is the key of the third cheapest product, absent when the row has fewer
\* than three products.
C15_FirstTierFeesAreCheapest ==
    (Processed /\ impl = "main") =>
        /\ IF Keyed = {} THEN ~IsNum(first_tier_fee_product1)
           ELSE /\ \E i \in Keyed :
                      first_tier_fee_product1 = ordering_key(products[i])
                /\ \A i \in Keyed :
                      RLe(first_tier_fee_product1, ordering_key(products[i]))
        /\ Len(products) < 3 => first_tier_fee_product3 = None
        /\ IF Cardinality(Keyed) < 3 THEN ~IsNum(first_tier_fee_product3)
           ELSE /\ \E i \in Keyed :
                      first_tier_fee_product3 = ordering_key(products[i])
                /\ Cardinality({i \in Keyed :
                        RLt(ordering_key(products[i]),
                            first_tier_fee_product3)}) <= 2
                /\ Cardinality({i \in Keyed :
                        RLe(ordering_key(products[i]),
                            first_tier_fee_product3)}) >= 3

-----------------------------------------------------------------------------
(* Properties of the tiers of the products of a row *)

\* C16: in every tiered product identify_products returns (both copies),
\* each tier but the last has a bounded upper bound, and the next tier's
\* lower bound equals it within 0.01: no range is appended after an
\* unbounded tier.
C16_TiersAreContiguous ==
    Processed =>
        \A p \in DOMAIN products :
            \A k \in 1 .. Len(products[p].tiers) - 1 :
                /\ Bounded(products[p].tiers[k].upper)
                /\ RLt(RSub(products[p].tiers[k + 1].lower,
                            products[p].tiers[k].upper), Tolerance)
                /\ RLt(RSub(products[p].tiers[k].upper,
                            products[p].tiers[k + 1].lower), Tolerance)

\* the fees of the tiers never rise, or never fall, from tier to tier
IsMonotonic(tiers) ==
    \/ \A k \in 1 .. Len(tiers) - 1 : RLe(tiers[k + 1].fee, tiers[k].fee)
    \/ \A k \in 1 .. Len(tiers) - 1 : RLe(tiers[k].fee, tiers[k + 1].fee)

\* C17: for a tiered product with monotonic tier fees and a portfolio value
\* above 0, the rate calculate_effective_fee returns lies between the
\* smallest and the largest tier fee of the product, whether or not its last
\* tier is unbounded and whatever its first lower bound.
C17_RateWithinTierRates ==
    (/\ pc = "calculated"
     /\ TieredProducts # <<>>
     /\ IsMonotonic(TieredProducts[1].tiers))
        => /\ IsNum(effective_fee)
           /\ \E k \in DOMAIN TieredProducts[1].tiers :
                 RLe(TieredProducts[1].tiers[k].fee, effective_fee)
           /\ \E k \in DOMAIN TieredProducts[1].tiers :
                 RLe(effective_fee, TieredProducts[1].tiers[k].fee)

\* C18: every tier of every tiered product of a row has a lower bound of at
\* least 0 and, when its upper bound is bounded, a lower bound below it.
C18_TierBoundsAreOrdered ==
    Processed =>
        \A p \in DOMAIN products :
            \A k \in DOMAIN products[p].tiers :
                /\ RLe(Whole(0), products[p].tiers[k].lower)
                /\ Bounded(products[p].tiers[k].upper) =>
                      RLt(products[p].tiers[k].lower, products[p].tiers[k].upper)

-----------------------------------------------------------------------------
(* Properties of the product list of a row *)

\* C19: identify_products (both copies) returns exactly one flat product
\* when has_flat_fee = 1, also when the value is unknown, and none
\* otherwise, so that product_count is the number of tiered products plus
\* has_flat_fee.
C19_OneFlatProductIfPresent ==
    Processed =>
        /\ Len(FlatProducts) = has_flat_fee
        /\ product_count = Len(TieredProducts) + has_flat_fee

\* the k-th tiered product identify_products created
Created(k) ==
    CHOOSE i \in DOMAIN TieredProducts :
        Cardinality({j \in DOMAIN TieredProducts :
            TieredProducts[j].original_index
                < TieredProducts[i].original_index}) = k - 1

\* the ranges in the order identify_products walked them: the tiers of the
\* first k tiered products it created
RECURSIVE Walked(_)
Walked(k) ==
    IF k = 0 THEN <<>>
    ELSE Walked(k - 1) \o TiersOf(TieredProducts[Created(k)])

\* the place of retained range i when the retained ranges are put in
\* ascending order of lower bound, equal lower bounds in column order
Place(i) ==
    1 + Cardinality({j \in DOMAIN RetainedRanges :
            \/ RLt(RetainedRanges[j].lower, RetainedRanges[i].lower)
            \/ RetainedRanges[j].lower = RetainedRanges[i].lower /\ j < i})

SortedRanges ==
    [k \in DOMAIN RetainedRanges |->
        LET r == RetainedRanges[CHOOSE i \in DOMAIN RetainedRanges : Place(i) = k]
        IN  Range(r.lower, IF r.upper = None THEN Inf ELSE r.upper, r.fee)]

\* C20: identify_products (both copies) walks the retained ranges in
\* ascending order of lower bound, equal lower bounds in column order,
\* whatever the order of the columns: the tiers of its products, product
\* after product, are the retained ranges in that order.
C20_RangesWalkedAscending ==
    Processed => Walked(Len(TieredProducts)) = SortedRanges

\* C21: in the list identify_products returns the ordering keys never
\* decrease from first to last, and every product without a key (a flat
\* product of unknown value) comes after all products that have one.
C21_ProductsOrderedByKey ==
    Processed =>
        \A i \in DOMAIN products : \A j \in DOMAIN products :
            i < j =>
                /\ j \in Keyed => i \in Keyed
                /\ (i \in Keyed /\ j \in Keyed) =>
                      RLe(ordering_key(products[i]), ordering_key(products[j]))

-----------------------------------------------------------------------------
(* Properties of the calculator on the product list of a row *)

\* C22: when the list holds a tiered product, calculate_effective_fee
\* returns the blended rate of the first tiered product of the list, which
\* has the smallest first tier fee of the tiered products, whatever the flat
\* products are; when it holds none, it returns the fee of the first flat
\* product as it is.
C22_FirstTieredProductDecides ==
    pc = "calculated" =>
        /\ TieredProducts # <<>> =>
              /\ effective_fee =
                    blended_rate(TieredProducts[1].tiers, Whole(portfolio_value))
              /\ \A k \in DOMAIN TieredProducts :
                    RLe(TieredProducts[1].tiers[1].fee,
                        TieredProducts[k].tiers[1].fee)
        /\ (TieredProducts = <<>> /\ FlatProducts # <<>>) =>
              effective_fee = FlatProducts[1].fee

\* a flat product cheaper than the rate returned is passed over
C22_Witness ==
    /\ pc = "calculated"
    /\ Len(TieredProducts) >= 2
    /\ FlatProducts # <<>>
    /\ IsNum(FlatProducts[1].fee)
    /\ IsNum(effective_fee)
    /\ RLt(FlatProducts[1].fee, effective_fee)

-----------------------------------------------------------------------------
(* Properties of the loop over the tiers *)

\* the loop returns what calculate_effective_fee returns
WalkIsCalculate ==
    pc = "calculated" =>
        effective_fee = calculate_effective_fee(products, Whole(portfolio_value))

\* C23: at every step of calculate_effective_fee on a tiered product the
\* remaining value is at least 0, so that the value the tiers walked so far
\* have consumed never exceeds V, and once the remaining value is zero no
\* further tier is charged.
C23_RemainingNeverNegative ==
    /\ RLe(Whole(0), remaining_value)
    /\ RLe(RSub(Whole(portfolio_value), remaining_value), Whole(portfolio_value))
    /\ remaining_value = Whole(0) => ~ENABLED ChargeTier

\* the loop stopped with tiers left: the value was used up before the last
C23_Witness ==
    /\ pc = "calculated"
    /\ remaining_value = Whole(0)
    /\ tier_index <= Len(walked_tiers)
    /\ tier_index > 1

-----------------------------------------------------------------------------
(* Properties of the range extractor: which pattern gives the bounds *)

\* C24: on a text cell extract_fee_range never raises; it takes the bounds
\* of a bounded range "$A - $B" first, else those of an open range "$A+"
\* with the upper bound unbounded, else a single dollar amount as lower
\* bound with no upper bound, else no bounds; the percent is found with or
\* without bounds, and the bounds with or without a percent.
C24_BoundsByPriority ==
    (fn \in Extractors /\ cell.kind = "str") =>
        /\ ~result.raised
        /\ \A a \in Amounts, b \in Amounts, c \in Percents :
              cell = Text(BoundedText(a.text, b.text, c.text)) =>
                  /\ IsNum(result.lower)
                  /\ IsNum(result.upper)
                  /\ result.fee = c.value
        /\ \A a \in Amounts, c \in Percents :
              cell = Text(OpenText(a.text, c.text)) =>
                  /\ IsNum(result.lower)
                  /\ result.upper = Inf
                  /\ result.fee = c.value
        /\ cell = Text(<<"$", "2", "5", ",", "0", "0", "0">>) =>
              result = Range(Whole(25000), None, None)
        /\ cell = Text(<<"1", ".", "5", "%">>) =>
              result = Range(None, None, Rat(3, 2))
        /\ cell = Text(<<"a", "b", "c">>) => result = NoRange

-----------------------------------------------------------------------------
(* Properties of main of run_fee_analysis.py *)

Steps ==
    << "fee_data_cleaning.py", "fee_structure_analysis.py",
       "fee_visualization.py", "multiple_products_analysis.py",
       "generate_summary_report" >>

-----------------------------------------------------------------------------
(* Properties of clean_and_consolidate_data *)

Consolidated == pc = "consolidated" /\ dataframes # <<>>

AdviserYear(r) == <<r.adviser_id1, r.adviser_id2, r.filing_date[1]>>

\* C26: after clean_and_consolidate_data at most one row remains for an
\* adviser and filing year, and if one of the rows of that adviser and year
\* had fee information, the remaining row has fee information and no row
\* of that adviser and year with fee information has a later date.
C26_OneRowPerAdviserYear ==
    Consolidated =>
        /\ \A i, j \in DOMAIN combined_df :
              AdviserYear(combined_df[i]) = AdviserYear(combined_df[j])
                  => i = j
        /\ \A i \in DOMAIN combined_df :
              \A r \in {concat(dataframes)[k] : k \in DOMAIN concat(dataframes)} :
                  /\ AdviserYear(r) = AdviserYear(combined_df[i])
                  /\ with_fee_info(r).has_fee_info
                  => /\ combined_df[i].has_fee_info
                     /\ NotBefore(combined_df[i].filing_date, r.filing_date)

-----------------------------------------------------------------------------
(* Properties of detect_misplaced_answers *)

OtherColumns ==
    {columns[i] : i \in DOMAIN columns} \ {threshold_cols[k] : k \in DOMAIN threshold_cols}

ThresholdColumns == {threshold_cols[k] : k \in DOMAIN threshold_cols}

\* the cells of row idx that detect_misplaced_answers cleared, and the
\* threshold cells it filled
Cleared(idx) == {col \in OtherColumns : corrected_df[idx][col] # df[idx][col]}

Filled(idx) == {col \in ThresholdColumns : corrected_df[idx][col] # df[idx][col]}

RECURSIVE FilledUpTo(_)
FilledUpTo(k) == IF k = 0 THEN 0 ELSE FilledUpTo(k - 1) + Cardinality(Filled(k))

-----------------------------------------------------------------------------
(* The two copies of identify_products *)

\* the same products in the same order, with the same tiers
SameProducts(a, b) ==
    /\ Len(a) = Len(b)
    /\ \A i \in DOMAIN a :
          /\ i \in DOMAIN b
          /\ a[i].type = b[i].type
          /\ IF a[i].type = "tiered" THEN TiersOf(a[i]) = TiersOf(b[i])
             ELSE a[i].fee = b[i].fee

\* both copies extract the same range from every threshold column
SameExtractedRanges ==
    \A i \in 1 .. NumRanges :
        /\ ~fee_range_of[row.ranges[i]].raised
        /\ fee_range_of[row.ranges[i]] = fee_range_of_step3[row.ranges[i]]

\* C28: the two copies of identify_products are equivalent.  Given the same
\* normalized flat fee and the same extracted ranges of the threshold
\* columns, they return the same product_count and the same products in the
\* same order with the same tiers.
C28_CopiesAgree ==
    (Processed /\ ~process_flat_fee(row.flat).raised /\ SameExtractedRanges) =>
        LET flat == process_flat_fee(row.flat)
            main == identify_products(flat.flag, flat.value, row.ranges)
            step3 == identify_products_step3(flat.flag, flat.value, row.ranges)
        IN  /\ main.raised = step3.raised
            /\ main.count = step3.count
            /\ SameProducts(main.products, step3.products)

-----------------------------------------------------------------------------
(* Every retained range is a tier *)

\* the places of the tiers: product p of the tiered products, tier k
TierSlots ==
    UNION { {<<p, k>> : k \in DOMAIN TieredProducts[p].tiers} :
              p \in DOMAIN TieredProducts }

\* C29: every retained range is a tier of exactly one tiered product,
\* exactly once, with its lower bound and fee unchanged: a lower bound and
\* fee occur among the tiers as often as among the retained ranges, there
\* are as many tiers as retained ranges, no tiered product is without
\* tiers, and there are at most 8 tiered products.
C29_EachRangeIsOneTier ==
    Processed =>
        /\ \A i \in DOMAIN RetainedRanges :
              Cardinality({j \in DOMAIN RetainedRanges :
                              /\ RetainedRanges[j].lower = RetainedRanges[i].lower
                              /\ RetainedRanges[j].fee = RetainedRanges[i].fee})
                = Cardinality({s \in TierSlots :
                      /\ TieredProducts[s[1]].tiers[s[2]].lower
                            = RetainedRanges[i].lower
                      /\ TieredProducts[s[1]].tiers[s[2]].fee
                            = RetainedRanges[i].fee})
        /\ Cardinality(TierSlots) = Len(RetainedRanges)
        /\ \A p \in DOMAIN TieredProducts : Len(TieredProducts[p].tiers) > 0
        /\ Len(TieredProducts) <= NumRanges

\* three retained ranges became two products, one of them of two tiers
C29_Witness ==
    /\ Processed
    /\ Len(RetainedRanges) = 3
    /\ Len(TieredProducts) = 2
    /\ \E p \in DOMAIN TieredProducts : Len(TieredProducts[p].tiers) = 2

-----------------------------------------------------------------------------
(* A cell with a single dollar amount *)

\* the cell "$A+ (C%)" for the cell "$A (C%)"
as_open(x) ==
    IF x = Text(SingleText(Chars(500000), <<"1", ".", "0">>))
    THEN Text(OpenText(Chars(500000), <<"1", ".", "0">>))
    ELSE x

\* the threshold columns that hold a retained range without upper bound
SingleAmountColumns ==
    {i \in 1 .. NumRanges : IsRetained(extracted(i)) /\ extracted(i).upper = None}

\* what the copy that processed the row returns for the threshold cells
\* ranges
ProductsOf(ranges) ==
    IF impl = "step3"
    THEN identify_products_step3(has_flat_fee, flat_fee_value, ranges)
    ELSE identify_products(has_flat_fee, flat_fee_value, ranges)

\* C30: a retained range whose upper bound is absent (a cell with a single
\* dollar amount and a percent) becomes a tier with unbounded upper, and the
\* row is stitched and charged as if the cell were the open range "$A+":
\* the products are those of the row with "$A+" in its place, none of their
\* tiers is without upper bound, and when the tier opens the product that
\* is charged, the whole portfolio is charged at its rate.
C30_SingleAmountIsOpenRange ==
    (Processed /\ SingleAmountColumns # {}) =>
        /\ products =
              ProductsOf([i \in 1 .. NumRanges |-> as_open(row.ranges[i])]).products
        /\ \A s \in TierSlots : TieredProducts[s[1]].tiers[s[2]].upper # None
        /\ \A i \in SingleAmountColumns :
              \E s \in TierSlots :
                  /\ TieredProducts[s[1]].tiers[s[2]].lower = extracted(i).lower
                  /\ TieredProducts[s[1]].tiers[s[2]].fee = extracted(i).fee
                  /\ TieredProducts[s[1]].tiers[s[2]].upper = Inf
        /\ (pc = "calculated" /\ TieredProducts[1].tiers[1].upper = Inf)
              => effective_fee = TieredProducts[1].tiers[1].fee

\* "$0 - $500000 (1.2%)" then "$500000 (1.0%)": one product of two tiers,
\* and a portfolio of 1,000,000 pays 1.1 percent
C30_Witness ==
    /\ pc = "calculated"
    /\ SingleAmountColumns # {}
    /\ Len(TieredProducts) = 1
    /\ Len(TieredProducts[1].tiers) = 2
    /\ TieredProducts[1].tiers[2].upper = Inf
    /\ effective_fee = Rat(11, 10)

=============================================================================
